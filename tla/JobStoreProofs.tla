----------------------------- MODULE JobStoreProofs -----------------------------
(***************************************************************************)
(* For any number of workers, clients and outages: what a poll returns.    *)
(* The two properties rest on different things. That the end is seen rests *)
(* on Redis alone, from the last update on. That reads are fresh rests on  *)
(* both stores: while Redis has not been lost, what is known is in one of  *)
(* the two, and what the job is about to write is all that both have.      *)
(***************************************************************************)
EXTENDS JobStore, TLAPS

(* What a record says; no record says nothing.                             *)
Says(record) == IF record = Nothing THEN {} ELSE record

(* No thread but the job's writes to a dictionary, and the job's merges    *)
(* its update into whatever it has read.                                   *)
JobWrites ==
    /\ \A w \in Workers : w # Home => memory[w] = Nothing
    /\ pc = "new" => doing = "queued"
    /\ pc \in {"write", "keep"} => current # Nothing /\ doing \in current

(* What was known when a poll began is known.                              *)
KnownStays == \A c \in Clients : expected[c] \subseteq known

(* Redis takes the last update once, and keeps it until it is lost.        *)
EndStays ==
    /\ settled # Nothing => settled \in 0..outages /\ pc = "over"
    /\ ~expired /\ settled = outages =>
          up /\ redis # Nothing /\ "ended" \in redis
    /\ \A c \in Clients : promised[c] # Nothing => promised[c] = settled
    /\ \A c \in Clients : ~expired /\ promised[c] = outages => at[c] # "recall"

(* Until Redis is lost, what was known is in one of its two places; and if *)
(* there is a record in Redis, it has all that the dictionary has.         *)
Unbroken == outages = 0 /\ ~expired

Stored == Says(redis) \cup Says(memory[Home])

StoredOnce ==
    /\ ~up \/ pc \in {"new", "recall", "keep"} => redis = Nothing
    /\ pc = "new" => memory[Home] = Nothing
    /\ redis # Nothing => Says(memory[Home]) \subseteq redis
    /\ known \subseteq Stored
    /\ pc \in {"write", "keep"} => Stored \subseteq current
    /\ \A c \in Clients : at[c] = "recall" => expected[c] \subseteq Says(memory[Home])

IInv ==
    /\ TypeOK /\ JobWrites /\ KnownStays /\ EndStays /\ EndIsSeen
    /\ Unbroken => StoredOnce
    /\ ReadsAreFresh

--------------------------------------------------------------------------------

(* Records and what they say.                                              *)
LEMMA RecordsSay ==
    /\ Says(Nothing) = {}
    /\ Nothing \in Records
    /\ \A r \in Records : r # Nothing => Says(r) = r /\ r \in SUBSET Updates
    /\ \A r \in Records : Says(r) \in SUBSET Updates
    /\ \A r \in SUBSET Updates : Nothing # r
    /\ \A r \in SUBSET Updates, u \in Updates :
          r \cup {u} \in Records /\ r \cup {u} # Nothing /\ u \in r \cup {u}
    /\ \A u \in Updates : {u} \in Records /\ {u} # Nothing
  <1>1. \A r \in SUBSET Updates : Nothing # r
    BY JobStoreAssumption
  <1>2. ASSUME NEW r \in SUBSET Updates, NEW u \in Updates
        PROVE  r \cup {u} \in Records /\ r \cup {u} # Nothing /\ u \in r \cup {u}
    <2>1. r \cup {u} \in SUBSET Updates /\ u \in r \cup {u} /\ r \cup {u} # {}
      OBVIOUS
    <2> QED
      BY <1>1, <2>1 DEF Records
  <1>3. ASSUME NEW u \in Updates
        PROVE  {u} \in Records /\ {u} # Nothing
    <2>1. {u} \in SUBSET Updates /\ {u} # {}
      OBVIOUS
    <2> QED
      BY <1>1, <2>1 DEF Records
  <1> QED
    BY <1>1, <1>2, <1>3 DEF Says, Records

(* A record with one update more is a record that says it.                 *)
LEMMA MergeSays ==
  ASSUME NEW r \in Records, r # Nothing, NEW u \in Updates
  PROVE  r \cup {u} \in Records /\ r \cup {u} # Nothing /\ u \in r \cup {u}
  BY RecordsSay

(* What follows an update is updates.                                      *)
LEMMA FollowsInOrder == \A u \in Updates : Follows(u) \subseteq Updates
  BY DEF Follows, Updates

(* The invariant holds before the job is submitted.                        *)
LEMMA InitInvariant == Init => IInv
  <1> SUFFICES ASSUME Init PROVE IInv
    OBVIOUS
  <1>1. TypeOK
    <2>1. outages \in 0..MaxOutages
      BY JobStoreAssumption DEF Init
    <2>2. redis \in Records /\ memory \in [Workers -> Records] /\ current \in Records
          /\ reply \in [Clients -> Records]
      BY RecordsSay DEF Init
    <2> QED
      BY <2>1, <2>2, JobStoreAssumption DEF Init, TypeOK, Updates
  <1>2. Nothing # outages
    BY JobStoreAssumption DEF Init
  <1> QED
    BY <1>1, <1>2, JobStoreAssumption, RecordsSay
    DEF Init, IInv, JobWrites, KnownStays, EndStays, EndIsSeen, Answered, Got,
        Unbroken, StoredOnce, Stored, ReadsAreFresh

(* The types, action by action.                                            *)
LEMMA StepTypes == TypeOK /\ [Next]_vars => TypeOK'
  <1> SUFFICES ASSUME TypeOK, [Next]_vars PROVE TypeOK'
    OBVIOUS
  <1> USE DEF TypeOK
  <1>1. CASE UNCHANGED vars
    BY <1>1 DEF vars, store, job, clients, history
  <1>2. CASE Submit
    <2>1. {"queued"} \in Records
      BY RecordsSay DEF Updates
    <2> QED
      BY <1>2, <2>1 DEF Submit, store, clients, history
  <1>3. CASE Update
    BY <1>3, FollowsInOrder DEF Update, store, clients, history
  <1>4. CASE Read
    <2>1. current' \in Records
      BY <1>4, MergeSays DEF Read
    <2> QED
      BY <1>4, <2>1 DEF Read, store, clients, history
  <1>5. CASE Recall
    <2>1. current' \in Records
      <3>1. CASE memory[Home] = Nothing
        BY <1>5, <3>1, RecordsSay DEF Recall
      <3>2. CASE memory[Home] # Nothing
        <4>1. memory[Home] \cup {doing} \in Records
          BY <3>2, MergeSays, JobStoreAssumption
        <4> QED
          BY <1>5, <3>2, <4>1 DEF Recall
      <3> QED
        BY <3>1, <3>2
    <2>2. memory' \in [Workers -> Records]
      BY <1>5, <2>1 DEF Recall
    <2> QED
      BY <1>5, <2>1, <2>2 DEF Recall, clients, history
  <1>6. CASE Write
    BY <1>6 DEF Write, Done, clients
  <1>7. CASE WriteFails
    BY <1>7 DEF WriteFails, store, clients, history
  <1>8. CASE WriteCutOff
    <2>1. outages' \in 0..MaxOutages
      BY <1>8, JobStoreAssumption DEF WriteCutOff
    <2> QED
      BY <1>8, <2>1 DEF WriteCutOff, clients
  <1>9. CASE Keep
    BY <1>9 DEF Keep, Done, clients, history
  <1>10. ASSUME NEW c \in Clients, NEW w \in Workers, Poll(c, w) PROVE TypeOK'
    BY <1>10 DEF Poll, store, job, history
  <1>11. ASSUME NEW c \in Clients, NEW r \in Records, Answer(c, r)
         PROVE  /\ reply' \in [Clients -> Records] /\ known' \subseteq Updates
                /\ at' \in [Clients -> {"idle", "ask", "recall"}]
    BY <1>11, RecordsSay DEF Answer, Says
  <1>12. ASSUME NEW c \in Clients, Ask(c) PROVE TypeOK'
    BY <1>11, <1>12 DEF Ask, store, job, history
  <1>13. ASSUME NEW c \in Clients, AskMemory(c) PROVE TypeOK'
    BY <1>11, <1>13 DEF AskMemory, store, job, history
  <1>14. CASE GoDown
    <2>1. outages' \in 0..MaxOutages
      BY <1>14, JobStoreAssumption DEF GoDown
    <2> QED
      BY <1>14, <2>1 DEF GoDown, job, clients
  <1>15. CASE ComeUp
    BY <1>15, RecordsSay DEF ComeUp, job, clients, history
  <1>16. CASE Expire
    BY <1>16, RecordsSay DEF Expire, job, clients
  <1> QED
    BY <1>1, <1>2, <1>3, <1>4, <1>5, <1>6, <1>7, <1>8, <1>9, <1>10, <1>12, <1>13,
       <1>14, <1>15, <1>16 DEF Next

(* What is known grows, whoever learns it.                                 *)
LEMMA KnownGrows == TypeOK /\ [Next]_vars => known \subseteq known'
  BY DEF Next, vars, history, Submit, Update, Read, Recall, Write, WriteFails, WriteCutOff,
         Keep, Done, Poll, Ask, AskMemory, Answer, GoDown, ComeUp, Expire

(* What a poll expects was known when it began, and stays known.           *)
LEMMA StepKnown == TypeOK /\ KnownStays /\ [Next]_vars => KnownStays'
  <1> SUFFICES ASSUME TypeOK, KnownStays, [Next]_vars, NEW c \in Clients
               PROVE  expected'[c] \subseteq known'
    BY DEF KnownStays
  <1>1. expected'[c] \in {expected[c], known}
    BY DEF TypeOK, Next, vars, clients, Submit, Update, Read, Recall, Write, WriteFails,
           WriteCutOff, Keep, Poll, Ask, AskMemory, GoDown, ComeUp, Expire
  <1> QED
    BY <1>1, KnownGrows DEF KnownStays

(* No step but the job's own writes to a dictionary.                       *)
LEMMA StepWrites == TypeOK /\ JobWrites /\ [Next]_vars => JobWrites'
  <1> SUFFICES ASSUME TypeOK, JobWrites, [Next]_vars PROVE JobWrites'
    OBVIOUS
  <1>1. \A w \in Workers : w # Home => memory'[w] = memory[w]
    BY DEF TypeOK, Next, vars, store, Submit, Update, Read, Recall, Write, WriteFails,
           WriteCutOff, Keep, Poll, Ask, AskMemory, GoDown, ComeUp, Expire
  <1>2. pc' \in {"write", "keep"} => current' # Nothing /\ doing' \in current'
    <2>1. CASE Submit
      <3>1. {"queued"} # Nothing
        BY RecordsSay DEF Updates
      <3>2. doing' = doing /\ current' = {"queued"}
        BY <2>1 DEF Submit
      <3> QED
        BY <3>1, <3>2, <2>1 DEF Submit, JobWrites
    <2>2. CASE Read
      <3>1. doing' = doing
        BY <2>2 DEF Read
      <3> QED
        BY <2>2, <3>1, MergeSays DEF Read, TypeOK
    <2>3. CASE Recall
      <3>1. doing' = doing /\ doing \in Updates
        BY <2>3 DEF Recall, TypeOK
      <3>2. memory[Home] \in Records
        BY JobStoreAssumption DEF TypeOK
      <3>3. CASE memory[Home] = Nothing
        BY <2>3, <3>1, <3>3, RecordsSay DEF Recall
      <3>4. CASE memory[Home] # Nothing
        BY <2>3, <3>1, <3>2, <3>4, MergeSays DEF Recall
      <3> QED
        BY <3>3, <3>4
    <2> QED
      BY <2>1, <2>2, <2>3
      DEF Next, vars, job, JobWrites, Update, Write, WriteFails, WriteCutOff, Keep,
          Done, Poll, Ask, AskMemory, GoDown, ComeUp, Expire
  <1>3. pc' = "new" => doing' = "queued"
    BY DEF JobWrites, Next, vars, job, Submit, Update, Read, Recall, Write, WriteFails,
           WriteCutOff, Keep, Done, Poll, Ask, AskMemory, GoDown, ComeUp, Expire
  <1> QED
    BY <1>1, <1>2, <1>3 DEF JobWrites

--------------------------------------------------------------------------------

(* What Redis and the job do to the end: only the last write settles it,   *)
(* and after that only a loss of Redis or the time to live unsettles it.   *)
LEMMA StepEndStays ==
  TypeOK /\ JobWrites /\ EndStays /\ [Next]_vars => EndStays'
  <1> SUFFICES ASSUME TypeOK, JobWrites, EndStays, [Next]_vars PROVE EndStays'
    OBVIOUS
  <1> DEFINE
        Late == settled # Nothing => settled \in 0..outages /\ pc = "over"
        There == ~expired /\ settled = outages =>
                    up /\ redis # Nothing /\ "ended" \in redis
        Promise == \A c \in Clients : promised[c] # Nothing => promised[c] = settled
        NoRecall == \A c \in Clients : ~expired /\ promised[c] = outages => at[c] # "recall"
  <1>1. /\ outages \in Nat /\ outages # Nothing
        /\ settled \in 0..MaxOutages \cup {Nothing}
        /\ \A c \in Clients : promised[c] \in 0..MaxOutages \cup {Nothing}
    BY JobStoreAssumption DEF TypeOK
  <1>2. Late /\ There /\ Promise /\ NoRecall
    BY DEF EndStays
  <1>3. \A c \in Clients : promised[c] = outages => settled = outages
    BY <1>1, <1>2
  <1>4. CASE Write
    <2>1. settled = Nothing
      BY <1>2, <1>4 DEF Write
    <2>2. UNCHANGED <<at, promised, outages, expired>>
      BY <1>4 DEF Write, clients
    <2>3. \A c \in Clients : promised[c] = Nothing
      BY <1>2, <2>1
    <2>4. CASE doing = "ended"
      <3>1. settled' = outages /\ pc' = "over" /\ up' /\ redis' = current
        BY <1>4, <2>4 DEF Write, Done
      <3>2. current # Nothing /\ "ended" \in current
        BY <1>4, <2>4 DEF Write, JobWrites
      <3> QED
        BY <1>1, <2>2, <2>3, <3>1, <3>2 DEF EndStays
    <2>5. CASE doing # "ended"
      <3>1. settled' = Nothing
        BY <1>4, <2>1, <2>5 DEF Write
      <3> QED
        BY <1>1, <2>2, <2>3, <3>1 DEF EndStays
    <2> QED
      BY <2>4, <2>5
  <1>5. ASSUME NEW c \in Clients, NEW w \in Workers, Poll(c, w) PROVE EndStays'
    <2>1. UNCHANGED <<settled, outages, pc, up, redis, expired>>
      BY <1>5 DEF Poll, store, job, history
    <2>2. \A d \in Clients :
            /\ promised'[d] = IF d = c THEN settled ELSE promised[d]
            /\ at'[d] = IF d = c THEN "ask" ELSE at[d]
      BY <1>5 DEF Poll, TypeOK
    <2> QED
      BY <1>2, <2>1, <2>2 DEF EndStays
  <1>6. ASSUME NEW c \in Clients, Ask(c) \/ AskMemory(c) PROVE EndStays'
    <2>1. UNCHANGED <<settled, outages, pc, up, redis, expired, promised>>
      BY <1>6 DEF Ask, AskMemory, store, job, history
    <2>2. \A d \in Clients : at'[d] = "recall" =>
            at[d] = "recall" \/ ~(up /\ redis # Nothing)
      BY <1>6 DEF Ask, AskMemory, Answer, TypeOK
    <2>3. NoRecall'
      BY <1>2, <1>3, <2>1, <2>2
    <2> QED
      BY <1>2, <2>1, <2>3 DEF EndStays
  <1>7. CASE GoDown \/ WriteCutOff
    <2>1. UNCHANGED <<settled, expired, at, promised>> /\ outages' = outages + 1
      BY <1>7 DEF GoDown, WriteCutOff, clients
    <2>2. settled # Nothing => pc' = "over" /\ settled \in 0..outages'
      BY <1>1, <1>2, <1>7, <2>1 DEF GoDown, WriteCutOff, job
    <2>3. settled' # outages'
      BY <1>1, <1>2, <2>1, <1>7, JobStoreAssumption DEF GoDown, WriteCutOff
    <2>4. \A c \in Clients : promised'[c] # outages'
      BY <1>1, <1>2, <2>1, <2>3, <1>7, JobStoreAssumption DEF GoDown, WriteCutOff
    <2> QED
      BY <1>2, <2>1, <2>2, <2>3, <2>4 DEF EndStays
  <1>8. CASE ComeUp
    <2>1. UNCHANGED <<settled, outages, pc, expired, promised, at>> /\ ~up
      BY <1>8 DEF ComeUp, job, clients, history
    <2> QED
      BY <1>2, <2>1 DEF EndStays
  <1>9. CASE Expire
    <2>1. UNCHANGED <<settled, outages, pc, promised, at>> /\ expired'
      BY <1>9 DEF Expire, job, clients
    <2> QED
      BY <1>2, <2>1 DEF EndStays
  <1>10. CASE Submit \/ Update \/ Read \/ Recall \/ WriteFails \/ Keep \/ UNCHANGED vars
    <2>1. UNCHANGED <<settled, outages, up, redis, expired, promised, at>>
      BY <1>10
      DEF Submit, Update, Read, Recall, WriteFails, Keep, vars, store, clients, history
    <2>2. pc = "over" => pc' = "over"
      BY <1>10 DEF Submit, Update, Read, Recall, WriteFails, Keep, vars, job
    <2> QED
      BY <1>2, <2>1, <2>2 DEF EndStays
  <1> QED
    BY <1>4, <1>5, <1>6, <1>7, <1>8, <1>9, <1>10 DEF Next

(* A poll that began when the end was settled is answered by Redis.        *)
LEMMA StepEndIsSeen ==
  TypeOK /\ EndStays /\ EndIsSeen /\ EndStays' /\ [Next]_vars => EndIsSeen'
  <1> SUFFICES ASSUME TypeOK, EndStays, EndIsSeen, EndStays', [Next]_vars, ~expired',
                      NEW c \in Clients, at'[c] = "idle", promised'[c] = outages'
               PROVE  "ended" \in Says(reply'[c])
    BY DEF EndIsSeen, Answered, Got, Says
  <1>1. /\ outages \in Nat /\ outages # Nothing
        /\ settled \in 0..MaxOutages \cup {Nothing}
        /\ promised[c] \in 0..MaxOutages \cup {Nothing}
    BY JobStoreAssumption DEF TypeOK
  <1>2. ~expired
    BY DEF Next, vars, history, Submit, Update, Read, Recall, Write, WriteFails,
           WriteCutOff, Keep, Poll, Ask, AskMemory, GoDown, ComeUp, Expire
  <1>3. promised[c] = promised'[c]
    BY DEF TypeOK, Next, vars, clients, Submit, Update, Read, Recall, Write, WriteFails,
           WriteCutOff, Keep, Poll, Ask, AskMemory, GoDown, ComeUp, Expire
  <1>4. outages' = outages
    <2>1. outages' = outages \/ (outages' = outages + 1 /\ outages < MaxOutages)
      BY DEF Next, vars, history, Submit, Update, Read, Recall, Write, WriteFails,
             WriteCutOff, Keep, Poll, Ask, AskMemory, GoDown, ComeUp, Expire
    <2>2. promised[c] # Nothing => promised[c] <= outages
      BY <1>1 DEF EndStays
    <2> QED
      BY <1>1, <1>3, <2>1, <2>2, JobStoreAssumption
  <1>5. settled = outages
    BY <1>1, <1>3, <1>4 DEF EndStays
  <1>6. up /\ redis # Nothing /\ "ended" \in redis /\ at[c] # "recall"
    BY <1>2, <1>3, <1>4, <1>5 DEF EndStays
  <1>7. CASE at[c] = "idle" /\ reply'[c] = reply[c]
    BY <1>2, <1>3, <1>4, <1>7 DEF EndIsSeen, Answered, Got, Says
  <1>8. CASE Ask(c)
    BY <1>6, <1>8 DEF Ask, Answer, Says, TypeOK
  <1>9. \/ at[c] = "idle" /\ reply'[c] = reply[c]
        \/ Ask(c) \/ AskMemory(c)
    <2>1. CASE \E d \in Clients : Ask(d) \/ AskMemory(d)
      BY <2>1 DEF Ask, AskMemory, Answer, TypeOK
    <2>2. CASE \E d \in Clients, w \in Workers : Poll(d, w)
      BY <2>2 DEF Poll, TypeOK
    <2>3. CASE UNCHANGED <<at, reply>>
      BY <2>3
    <2> QED
      BY <2>1, <2>2, <2>3 DEF Next, vars, clients, Submit, Update, Read, Recall, Write,
         WriteFails, WriteCutOff, Keep, GoDown, ComeUp, Expire
  <1> QED
    BY <1>6, <1>7, <1>8, <1>9 DEF AskMemory

--------------------------------------------------------------------------------

(* What was never broken was not broken before, and lost nothing.          *)
LEMMA UnbrokenBefore ==
  ASSUME TypeOK, [Next]_vars, Unbroken'
  PROVE  /\ Unbroken /\ UNCHANGED <<outages, expired>>
         /\ ~WriteCutOff /\ ~GoDown /\ ~Expire
  BY JobStoreAssumption
  DEF TypeOK, Unbroken, Next, vars, history, Submit, Update, Read, Recall, Write, WriteFails,
      WriteCutOff, Keep, Poll, Ask, AskMemory, GoDown, ComeUp, Expire

(* The records of a typed state, as sets.                                  *)
LEMMA StoredSets ==
  ASSUME TypeOK
  PROVE  /\ redis \in Records /\ memory[Home] \in Records /\ current \in Records
         /\ Says(redis) \in SUBSET Updates /\ Says(memory[Home]) \in SUBSET Updates
         /\ redis # Nothing => Says(redis) = redis
         /\ memory[Home] # Nothing => Says(memory[Home]) = memory[Home]
         /\ redis = Nothing => Says(redis) = {}
         /\ memory[Home] = Nothing => Says(memory[Home]) = {}
  BY JobStoreAssumption, RecordsSay DEF TypeOK, Says

(* A step that leaves both stores and the job's own view alone.            *)
LEMMA StoredStill ==
  ASSUME TypeOK, StoredOnce, UNCHANGED <<redis, memory, known>>, up' => up \/ redis = Nothing,
         up => up',
         pc' \in {"new", "recall", "keep"} => redis = Nothing,
         pc' = "new" => pc = "new",
         pc' \in {"write", "keep"} => Stored \subseteq current',
         \A c \in Clients : at'[c] = "recall" => expected'[c] \subseteq Says(memory[Home])
  PROVE  StoredOnce'
  BY DEF StoredOnce, Stored, Says

(* While Redis is not lost once it answers, every update known is in a     *)
(* store that a poll reads.                                                *)
LEMMA StepStored ==
  ASSUME TypeOK, JobWrites, KnownStays, StoredOnce, [Next]_vars, Unbroken'
  PROVE  StoredOnce'
  <1> DEFINE Waiting == \A c \in Clients :
                at'[c] = "recall" => expected'[c] \subseteq Says(memory'[Home])
  <1>1. ~WriteCutOff /\ ~GoDown /\ ~Expire
    BY UnbrokenBefore
  <1>2. \A c \in Clients : at[c] = "recall" => expected[c] \subseteq Says(memory[Home])
    BY DEF StoredOnce
  <1>3. CASE Submit
    <2>1. UNCHANGED <<redis, memory, known, up, at, expected>> /\ pc' = "write" /\ pc = "new"
      BY <1>3 DEF Submit, store, clients
    <2>2. Stored = {}
      BY <2>1, StoredSets DEF StoredOnce, Stored
    <2> QED
      BY <1>2, <2>1, <2>2, StoredStill
  <1>4. CASE Update
    <2>1. UNCHANGED <<redis, memory, known, up, at, expected>> /\ pc' = "read"
      BY <1>4 DEF Update, store, clients
    <2> QED
      BY <1>2, <2>1, StoredStill
  <1>5. CASE Read
    <2>1. UNCHANGED <<redis, memory, known, up, at, expected>>
      BY <1>5 DEF Read, store, clients
    <2>2. CASE up /\ redis # Nothing
      <3>1. pc' = "write" /\ current' = redis \cup {doing}
        BY <1>5, <2>2 DEF Read
      <3>2. Stored \subseteq redis
        BY <2>2, StoredSets DEF StoredOnce, Stored
      <3> QED
        BY <1>2, <2>1, <3>1, <3>2, StoredStill
    <2>3. CASE ~(up /\ redis # Nothing)
      <3>1. pc' = "recall" /\ redis = Nothing
        BY <1>5, <2>3 DEF Read, StoredOnce
      <3> QED
        BY <1>2, <2>1, <3>1, StoredStill
    <2> QED
      BY <2>2, <2>3
  <1>6. CASE Recall
    <2>1. UNCHANGED <<redis, known, up, at, expected>> /\ redis = Nothing /\ pc' = "write"
      BY <1>6 DEF Recall, clients, StoredOnce
    <2>2. /\ Says(memory[Home]) \subseteq current' /\ Says(memory'[Home]) \subseteq current'
          /\ Says(memory[Home]) \subseteq Says(memory'[Home])
      <3>1. CASE memory[Home] = Nothing
        BY <1>6, <3>1, StoredSets DEF Recall
      <3>2. CASE memory[Home] # Nothing
        <4>1. current' = memory[Home] \cup {doing} /\ memory'[Home] = current'
          BY <1>6, <3>2, JobStoreAssumption DEF Recall, TypeOK
        <4>2. current' # Nothing
          BY <3>2, <4>1, MergeSays, StoredSets DEF TypeOK
        <4> QED
          BY <3>2, <4>1, <4>2, StoredSets DEF Says
      <3> QED
        BY <3>1, <3>2
    <2>3. Says(redis) = {}
      BY <2>1 DEF Says
    <2> QED
      BY <1>2, <2>1, <2>2, <2>3 DEF StoredOnce, Stored, Says
  <1>7. CASE Write
    <2>1. /\ UNCHANGED <<memory, up, at, expected>> /\ up /\ redis' = current
          /\ pc' \in {"over", "between"} /\ known' = known \cup {doing}
      BY <1>7 DEF Write, Done, clients
    <2>2. Stored \subseteq current /\ current # Nothing /\ doing \in current
      BY <1>7 DEF Write, StoredOnce, JobWrites
    <2> QED
      BY <1>2, <2>1, <2>2 DEF StoredOnce, Stored, Says
  <1>8. CASE WriteFails
    <2>1. UNCHANGED <<redis, memory, known, up, at, expected, current>>
      BY <1>8 DEF WriteFails, store, clients
    <2>2. pc' = "keep" /\ redis = Nothing /\ Stored \subseteq current
      BY <1>8 DEF WriteFails, StoredOnce
    <2> QED
      BY <1>2, <2>1, <2>2, StoredStill
  <1>9. CASE Keep
    <2>1. /\ UNCHANGED <<redis, up, at, expected>> /\ memory'[Home] = current
          /\ pc' \in {"over", "between"} /\ known' = known \cup {doing}
      BY <1>9, JobStoreAssumption DEF Keep, Done, clients, TypeOK
    <2>2. /\ Stored \subseteq current /\ current # Nothing /\ doing \in current
          /\ redis = Nothing
      BY <1>9 DEF Keep, StoredOnce, JobWrites
    <2>3. Says(memory'[Home]) = current
      BY <2>1, <2>2 DEF Says
    <2>4. Waiting
      BY <1>2, <2>1, <2>2, <2>3 DEF Stored
    <2> QED
      BY <2>1, <2>2, <2>3, <2>4 DEF StoredOnce, Stored, Says
  <1>10. ASSUME NEW c \in Clients, NEW w \in Workers, Poll(c, w) PROVE StoredOnce'
    <2>1. UNCHANGED <<redis, memory, known, up, pc, current>>
      BY <1>10 DEF Poll, store, job
    <2>2. \A d \in Clients : at'[d] = "recall" => at[d] = "recall" /\ expected'[d] = expected[d]
      BY <1>10 DEF Poll, TypeOK
    <2>3. \A d \in Clients : at'[d] = "recall" => expected'[d] \subseteq Says(memory[Home])
      BY <1>2, <2>2
    <2> QED
      BY <2>1, <2>3, StoredStill DEF StoredOnce
  <1>11. ASSUME NEW c \in Clients, Ask(c) PROVE StoredOnce'
    <2>1. UNCHANGED <<redis, memory, up, pc, current, expected>>
      BY <1>11 DEF Ask, store, job
    <2>2. CASE up /\ redis # Nothing
      <3>1. known' = known \cup redis
        BY <1>11, <2>2 DEF Ask, Answer
      <3>2. \A d \in Clients : at'[d] = "recall" => at[d] = "recall"
        BY <1>11, <2>2 DEF Ask, Answer, TypeOK
      <3>3. known' \subseteq Stored
        BY <2>2, <3>1, StoredSets DEF StoredOnce, Stored
      <3> QED
        BY <1>2, <2>1, <3>2, <3>3 DEF StoredOnce, Stored, Says
    <2>3. CASE ~(up /\ redis # Nothing)
      <3>1. UNCHANGED known /\ redis = Nothing
        BY <1>11, <2>3 DEF Ask, StoredOnce
      <3>2. \A d \in Clients : at'[d] = "recall" => at[d] = "recall" \/ d = c
        BY <1>11, <2>3 DEF Ask, TypeOK
      <3>3. expected[c] \subseteq Says(memory[Home])
        BY <3>1, StoredSets DEF KnownStays, StoredOnce, Stored
      <3> QED
        BY <1>2, <2>1, <3>1, <3>2, <3>3, StoredStill DEF StoredOnce
    <2> QED
      BY <2>2, <2>3
  <1>12. ASSUME NEW c \in Clients, AskMemory(c) PROVE StoredOnce'
    <2>1. UNCHANGED <<redis, memory, up, pc, current, expected>>
      BY <1>12 DEF AskMemory, store, job
    <2>2. asked[c] \in Workers /\ known' = known \cup Says(memory[asked[c]])
      BY <1>12 DEF AskMemory, Answer, Says, TypeOK
    <2>3. Says(memory[asked[c]]) \subseteq Says(memory[Home])
      BY <2>2 DEF JobWrites, Says
    <2>4. known' \subseteq Stored
      BY <2>2, <2>3 DEF StoredOnce, Stored
    <2>5. \A d \in Clients : at'[d] = "recall" => at[d] = "recall"
      BY <1>12 DEF AskMemory, Answer, TypeOK
    <2> QED
      BY <1>2, <2>1, <2>4, <2>5 DEF StoredOnce, Stored, Says
  <1>13. CASE ComeUp
    <2>1. UNCHANGED <<memory, known, pc, current, at, expected>> /\ up'
      BY <1>13 DEF ComeUp, job, clients
    <2>2. redis = Nothing /\ redis' = Nothing
      BY <1>13 DEF ComeUp, StoredOnce
    <2> QED
      BY <1>2, <2>1, <2>2, StoredStill DEF StoredOnce
  <1>14. CASE UNCHANGED vars
    <2>1. UNCHANGED <<redis, memory, known, up, pc, current, at, expected>>
      BY <1>14 DEF vars, store, job, clients
    <2> QED
      BY <1>2, <2>1, StoredStill DEF StoredOnce
  <1> QED
    BY <1>1, <1>3, <1>4, <1>5, <1>6, <1>7, <1>8, <1>9, <1>10, <1>11, <1>12, <1>13, <1>14
    DEF Next

(* A poll is answered with what is stored, or, on its second look, with    *)
(* what the dictionary had when Redis had no record.                       *)
LEMMA StepReads ==
  ASSUME TypeOK, JobWrites, KnownStays, StoredOnce, ReadsAreFresh, [Next]_vars, Unbroken'
  PROVE  ReadsAreFresh'
  <1> SUFFICES ASSUME NEW c \in Clients, at'[c] = "idle",
                      asked'[c] = Home \/ NeverKept'
               PROVE  expected'[c] \subseteq Says(reply'[c])
    BY DEF ReadsAreFresh, Answered, Got, Says
  <1>1. Unbroken
    BY UnbrokenBefore
  <1>2. NeverKept' => NeverKept
    <2> SUFFICES ASSUME NEW w \in Workers, memory'[w] = Nothing
                 PROVE  memory[w] = Nothing
      BY DEF NeverKept
    <2>1. CASE Recall
      <3>1. CASE memory[Home] = Nothing
        BY <2>1, <3>1 DEF Recall
      <3>2. CASE memory[Home] # Nothing
        <4>1. memory' = [memory EXCEPT ![Home] = memory[Home] \cup {doing}]
          BY <2>1, <3>2 DEF Recall
        <4>2. memory[Home] \cup {doing} \in SUBSET Updates
          BY <3>2, JobStoreAssumption DEF TypeOK, Records
        <4>3. memory[Home] \cup {doing} # Nothing
          BY <4>2, JobStoreAssumption
        <4> QED
          BY <4>1, <4>3, JobStoreAssumption DEF TypeOK
      <3> QED
        BY <3>1, <3>2
    <2>2. CASE Keep
      <3>1. current # Nothing
        BY <2>2 DEF Keep, JobWrites
      <3> QED
        BY <2>2, <3>1, JobStoreAssumption DEF Keep, TypeOK
    <2>3. CASE UNCHANGED memory
      BY <2>3
    <2> QED
      BY <2>1, <2>2, <2>3
      DEF Next, vars, store, Submit, Update, Read, Write, WriteFails, WriteCutOff,
          Poll, Ask, AskMemory, GoDown, ComeUp, Expire
  <1>3. CASE at[c] = "idle" /\ UNCHANGED <<reply[c], asked[c], expected[c]>>
    BY <1>1, <1>2, <1>3 DEF ReadsAreFresh, Unbroken, Answered, Got, Says
  <1>4. CASE Ask(c)
    <2>1. up /\ redis # Nothing /\ reply'[c] = redis /\ UNCHANGED expected
      BY <1>4 DEF Ask, Answer, TypeOK
    <2>2. known \subseteq redis
      BY <2>1, StoredSets DEF StoredOnce, Stored
    <2> QED
      BY <2>1, <2>2 DEF KnownStays, Says
  <1>5. CASE AskMemory(c)
    <2>1. reply'[c] = memory[asked[c]] /\ UNCHANGED <<expected, asked, memory>>
      BY <1>5 DEF AskMemory, Answer, TypeOK, store
    <2>2. expected[c] \subseteq Says(memory[Home])
      BY <1>5 DEF AskMemory, StoredOnce
    <2>3. CASE asked[c] = Home
      BY <2>1, <2>2, <2>3
    <2>4. CASE NeverKept
      <3>1. expected[c] = {}
        BY <2>2, <2>4, JobStoreAssumption DEF NeverKept, Says
      <3> QED
        BY <2>1, <3>1
    <2> QED
      BY <1>2, <2>1, <2>3, <2>4
  <1>6. \/ at[c] = "idle" /\ UNCHANGED <<reply[c], asked[c], expected[c]>>
        \/ Ask(c) \/ AskMemory(c)
    <2>1. CASE \E d \in Clients : Ask(d) \/ AskMemory(d)
      BY <2>1 DEF Ask, AskMemory, Answer, TypeOK
    <2>2. CASE \E d \in Clients, w \in Workers : Poll(d, w)
      BY <2>2 DEF Poll, TypeOK
    <2>3. CASE UNCHANGED <<at, reply, asked, expected>>
      BY <2>3
    <2> QED
      BY <2>1, <2>2, <2>3 DEF Next, vars, clients, Submit, Update, Read, Recall, Write,
         WriteFails, WriteCutOff, Keep, GoDown, ComeUp, Expire
  <1> QED
    BY <1>3, <1>4, <1>5, <1>6

--------------------------------------------------------------------------------

(* So it holds always.                                                     *)
LEMMA Invariance == Spec => []IInv
  <1>1. IInv /\ [Next]_vars => IInv'
    <2> SUFFICES ASSUME IInv, [Next]_vars PROVE IInv'
      OBVIOUS
    <2>1. TypeOK' /\ JobWrites' /\ KnownStays' /\ EndStays'
      BY StepTypes, StepWrites, StepKnown, StepEndStays DEF IInv
    <2>2. EndIsSeen'
      BY <2>1, StepEndIsSeen DEF IInv
    <2>3. Unbroken' => StoredOnce' /\ ReadsAreFresh'
      BY UnbrokenBefore, StepStored, StepReads DEF IInv
    <2>4. ReadsAreFresh'
      BY <2>3 DEF ReadsAreFresh, Unbroken
    <2> QED
      BY <2>1, <2>2, <2>3, <2>4 DEF IInv
  <1> QED
    BY <1>1, InitInvariant, PTL DEF Spec

(* The record, its two stores, and what threads hold of it keep their      *)
(* types, through outages of Redis at any step of update_job().            *)
THEOREM TypeCorrect == Spec => []TypeOK
  <1>1. IInv => TypeOK
    BY DEF IInv
  <1> QED
    BY <1>1, Invariance, PTL

(* As long as Redis is not lost once it answers, a poll of the job's own   *)
(* worker returns every update that was known when it began, and so does a *)
(* poll of any worker if no record went to a dictionary (get_job(),        *)
(* update_job(), set_job() of job_store.py).                               *)
THEOREM ReadsHold == Spec => []ReadsAreFresh
  <1>1. IInv => ReadsAreFresh
    BY DEF IInv
  <1> QED
    BY <1>1, Invariance, PTL

(* From the moment that Redis takes the job's last update until it is lost *)
(* or the record expires, every worker reports that the job has ended,     *)
(* whatever was lost, and whatever was in the dictionaries, before.        *)
THEOREM EndHolds == Spec => []EndIsSeen
  <1>1. IInv => EndIsSeen
    BY DEF IInv
  <1> QED
    BY <1>1, Invariance, PTL
================================================================================
