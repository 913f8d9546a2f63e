-------------------------- MODULE AssessmentCacheProofs --------------------------
(***************************************************************************)
(* For any number of jobs, reviews, evaluations, outages and restarts, and *)
(* a dictionary of any size. Whichever store an answer goes through, it is *)
(* kept under the key of the question it was made for, which is the one    *)
(* fact that lookups rest on. What the script gets rests on another: no    *)
(* job asks under its version, so that between its listing of the keys and *)
(* its deletion none that concerns it can appear.                          *)
(***************************************************************************)
EXTENDS AssessmentCache, SequenceTheorems, FiniteSetTheorems, TLAPS

Busy(c) == calls[c] # Idle
LookedUp(c) == Busy(c) /\ calls[c] \in Looking \cup Answering
Has(c) == Busy(c) /\ calls[c] \in Answering

(* Only jobs ask for examples, and only the script clears.                 *)
RoleOf(c) == Busy(c) =>
    /\ calls[c] \in Learning => c \in Jobs
    /\ calls[c] \in Clearing => c = Script
    /\ LookedUp(c) => (calls[c].version = EvalVersion <=> c = Script)
Roles == \A c \in Callers : RoleOf(c)

(* A call, or a result, and the key that belongs to it.                    *)
Fits(key, q) ==
    /\ q.version = EvalVersion => key = KeyOf(q.ask, q.version, NoExtra)
                                  /\ q.examples = NoExamples
    /\ q.version # EvalVersion => key = KeyOf(q.ask, q.version, Signature(q.examples))

RedisFits == \A key \in DOMAIN redis : Fits(key, redis[key])
MemoryFits == \A p \in Processes : \A i \in DOMAIN memory[p] :
    Fits(memory[p][i].key, memory[p][i].result)
FitOf(c) ==
    /\ LookedUp(c) => Fits(calls[c].key, calls[c])
    /\ Has(c) => Fits(calls[c].key, calls[c].result)
CallsFit == \A c \in Callers : FitOf(c)

(* What there is of earlier runs of the script: nothing in its dictionary, *)
(* once that is cleared; nothing in Redis, once that was; and, before, no  *)
(* more than it has listed. Nor does it store anything of an earlier run.  *)
Cleared == Busy(Script) /\ ~At(Script, "delete") /\ ~At(Script, "forget")
RunInMemory == Cleared =>
    \A i \in DOMAIN memory["evaluation"] : memory["evaluation"][i].result.run = run
OfScript(key) == redis[key].version = EvalVersion
RunInRedis == forgot => \A key \in DOMAIN redis : OfScript(key) => redis[key].run = run
Listed == At(Script, "delete") =>
    ~forgot /\ \A key \in DOMAIN redis : OfScript(key) => key \in calls[Script].keys
RunInCall ==
    /\ At(Script, "store") \/ At(Script, "keep") => calls[Script].result.run = run
    /\ FreshlyAssessed

IInv ==
    /\ TypeOK /\ Roles /\ RedisFits /\ MemoryFits /\ CallsFit
    /\ RunInMemory /\ RunInRedis /\ Listed /\ RunInCall

--------------------------------------------------------------------------------

(* The newest n rows are at most n: each is told apart by the number of    *)
(* chosen rows that are newer.                                             *)
LEMMA NewestIsBounded ==
  ASSUME NEW policy, NEW status, NEW n \in Nat
  PROVE  Newest(policy, status, n) \in AtMost(n)
  <1> DEFINE chosen == {a \in Rows : PolicyOf[a] = policy /\ verdict[a].status = status}
             Newer(a) == {b \in chosen : b > a}
             newest == {a \in chosen : Cardinality(Newer(a)) < n}
             f == [a \in newest |-> Cardinality(Newer(a))]
  <1>1. IsFiniteSet(chosen) /\ chosen \subseteq Nat
    BY FS_Subset, FeedbackAssumption
  <1>2. \A a : Newer(a) \in SUBSET chosen
    OBVIOUS
  <1>3. ASSUME NEW a \in chosen
        PROVE  IsFiniteSet(Newer(a)) /\ Cardinality(Newer(a)) \in Nat
    BY <1>1, <1>2, FS_Subset, FS_CardinalityType
  <1>4. ASSUME NEW a \in chosen, NEW b \in chosen, a < b
        PROVE  Cardinality(Newer(a)) # Cardinality(Newer(b))
    <2>1. Newer(b) \in SUBSET Newer(a)
      BY <1>1, <1>4
    <2>2. b \in Newer(a) /\ b \notin Newer(b)
      BY <1>1, <1>4
    <2> QED
      BY <1>3, <2>1, <2>2, FS_Subset
  <1>5. f \in [newest -> 0..(n - 1)]
    <2>1. ASSUME NEW a \in newest PROVE Cardinality(Newer(a)) \in 0..(n - 1)
      BY <1>3
    <2> QED
      BY <2>1
  <1>6. ASSUME NEW a \in newest, NEW b \in newest, f[a] = f[b] PROVE a = b
    <2>1. Cardinality(Newer(a)) = Cardinality(Newer(b))
      BY <1>6
    <2>2. a \in Nat /\ b \in Nat /\ a \in chosen /\ b \in chosen
      BY <1>1
    <2> QED
      BY <1>4, <2>1, <2>2
  <1>7. f \in Injection(newest, 0..(n - 1))
    BY <1>5, <1>6 DEF Injection, IsInjective
  <1>8. IsFiniteSet(0..(n - 1)) /\ Cardinality(0..(n - 1)) = n
    BY FS_Interval
  <1>9. Cardinality(newest) <= n
    BY <1>7, <1>8, FS_Injection
  <1>10. Newest(policy, status, n) = newest
    BY DEF Newest
  <1>11. newest \in SUBSET Rows
    OBVIOUS
  <1> HIDE DEF newest
  <1> QED
    BY <1>9, <1>10, <1>11 DEF AtMost

--------------------------------------------------------------------------------

(* The dictionary: an entry is looked for, taken out, and put at the end.  *)
Distinct(entries) ==
    \A i, k \in DOMAIN entries : entries[i].key = entries[k].key => i = k
Made(new, entries, entry) == \A i \in DOMAIN new :
    new[i] = entry \/ \E k \in DOMAIN entries : new[i] = entries[k]

(* The place of a key that is kept.                                        *)
LEMMA PlaceIsKept ==
  ASSUME NEW entries \in Seq(Entries), NEW key, IsKept(entries, key)
  PROVE  /\ PlaceOf(entries, key) \in 1..Len(entries)
         /\ entries[PlaceOf(entries, key)].key = key
         /\ entries[PlaceOf(entries, key)] \in Entries
  <1>1. PlaceOf(entries, key) \in DOMAIN entries /\ entries[PlaceOf(entries, key)].key = key
    BY DEF IsKept, PlaceOf
  <1> QED
    BY <1>1, LenProperties, ElementOfSeq

(* The community modules define RemoveAt but say nothing of it.            *)
LEMMA RemoveAtProperties ==
  ASSUME NEW S, NEW seq \in Seq(S), NEW n \in 1..Len(seq)
  PROVE  /\ RemoveAt(seq, n) \in Seq(S)
         /\ Len(RemoveAt(seq, n)) = Len(seq) - 1
         /\ \A i \in 1..(Len(seq) - 1) :
               RemoveAt(seq, n)[i] = IF i < n THEN seq[i] ELSE seq[i + 1]
  <1> DEFINE front == SubSeq(seq, 1, n - 1)
             back == SubSeq(seq, n + 1, Len(seq))
  <1>1. Len(seq) \in Nat /\ \A i \in 1..Len(seq) : seq[i] \in S
    BY LenProperties, ElementOfSeq
  <1>2. /\ front \in Seq(S) /\ Len(front) = n - 1
        /\ \A i \in 1..(n - 1) : front[i] = seq[i]
    <2>1. \A i \in 1..(n - 1) : seq[i] \in S
      BY <1>1
    <2>2. /\ front \in Seq(S)
          /\ Len(front) = IF 1 <= n - 1 THEN n - 1 - 1 + 1 ELSE 0
          /\ \A i \in 1..(n - 1 - 1 + 1) : front[i] = seq[1 + i - 1]
      BY <1>1, <2>1, SubSeqProperties
    <2> QED
      BY <1>1, <2>2
  <1>3. /\ back \in Seq(S) /\ Len(back) = Len(seq) - n
        /\ \A i \in 1..(Len(seq) - n) : back[i] = seq[n + i]
    <2>1. \A i \in (n + 1)..Len(seq) : seq[i] \in S
      BY <1>1
    <2>2. /\ back \in Seq(S)
          /\ Len(back) = IF n + 1 <= Len(seq) THEN Len(seq) - (n + 1) + 1 ELSE 0
          /\ \A i \in 1..(Len(seq) - (n + 1) + 1) : back[i] = seq[(n + 1) + i - 1]
      BY <1>1, <2>1, SubSeqProperties
    <2> QED
      BY <1>1, <2>2
  <1> HIDE DEF front, back
  <1>4. /\ front \o back \in Seq(S) /\ Len(front \o back) = Len(front) + Len(back)
        /\ \A i \in 1..(Len(front) + Len(back)) :
              (front \o back)[i] = IF i <= Len(front) THEN front[i] ELSE back[i - Len(front)]
    BY <1>2, <1>3, ConcatProperties
  <1>5. RemoveAt(seq, n) = front \o back
    BY DEF RemoveAt, front, back
  <1>6. ASSUME NEW i \in 1..(Len(seq) - 1)
        PROVE  (front \o back)[i] = IF i < n THEN seq[i] ELSE seq[i + 1]
    <2>1. i \in 1..(Len(front) + Len(back))
      BY <1>1, <1>2, <1>3
    <2>2. CASE i < n
      BY <1>1, <1>2, <1>4, <2>1, <2>2
    <2>3. CASE ~(i < n)
      <3>1. i - (n - 1) \in 1..(Len(seq) - n)
        BY <1>1, <2>3
      <3>2. (front \o back)[i] = back[i - (n - 1)]
        BY <1>1, <1>2, <1>4, <2>1, <2>3
      <3> QED
        BY <1>1, <1>3, <2>3, <3>1, <3>2
    <2> QED
      BY <2>2, <2>3
  <1>7. front \o back \in Seq(S) /\ Len(front \o back) = Len(seq) - 1
    BY <1>1, <1>2, <1>3, <1>4
  <1> QED
    BY <1>5, <1>6, <1>7

(* What is left without a key: entries there were, each key once, and not  *)
(* that one.                                                               *)
LEMMA WithoutProperties ==
  ASSUME NEW entries \in Seq(Entries), Distinct(entries), NEW key
  PROVE  LET rest == Without(entries, key)
         IN  /\ rest \in Seq(Entries) /\ Distinct(rest)
             /\ Len(rest) = IF IsKept(entries, key) THEN Len(entries) - 1 ELSE Len(entries)
             /\ \A i \in DOMAIN rest :
                   rest[i].key # key /\ \E k \in DOMAIN entries : rest[i] = entries[k]
  <1> DEFINE rest == Without(entries, key)
  <1>0. DOMAIN entries = 1..Len(entries) /\ Len(entries) \in Nat
    BY LenProperties
  <1>1. CASE IsKept(entries, key)
    <2>1. PICK n \in 1..Len(entries) : n = PlaceOf(entries, key) /\ entries[n].key = key
      BY <1>1, PlaceIsKept
    <2>2. rest = RemoveAt(entries, n)
      BY <1>1, <2>1 DEF Without
    <2>3. /\ rest \in Seq(Entries) /\ Len(rest) = Len(entries) - 1
          /\ \A i \in 1..(Len(entries) - 1) :
                rest[i] = IF i < n THEN entries[i] ELSE entries[i + 1]
      BY <2>2, RemoveAtProperties
    <2>4. DOMAIN rest = 1..(Len(entries) - 1)
      BY <2>3, LenProperties
    <2> HIDE DEF rest
    <2> DEFINE Old(i) == IF i < n THEN i ELSE i + 1
    <2>5. ASSUME NEW i \in DOMAIN rest
          PROVE  Old(i) \in DOMAIN entries /\ Old(i) # n /\ rest[i] = entries[Old(i)]
      BY <1>0, <2>3, <2>4
    <2>6. \A i, k \in DOMAIN rest : Old(i) = Old(k) => i = k
      BY <1>0, <2>4
    <2> HIDE DEF Old
    <2>7. \A i \in DOMAIN rest : rest[i].key # key
      BY <1>0, <2>1, <2>5 DEF Distinct
    <2>8. Distinct(rest)
      BY <2>5, <2>6 DEF Distinct
    <2> QED
      BY <1>1, <2>3, <2>5, <2>7, <2>8 DEF rest
  <1>2. CASE ~IsKept(entries, key)
    BY <1>2 DEF Without, IsKept
  <1> QED
    BY <1>1, <1>2

(* An entry that is put last takes the place of the one with its key.      *)
LEMMA PutLast ==
  ASSUME NEW entries \in Seq(Entries), Distinct(entries), NEW entry \in Entries
  PROVE  LET new == Append(Without(entries, entry.key), entry)
         IN  /\ new \in Seq(Entries) /\ Distinct(new) /\ Made(new, entries, entry)
             /\ Len(new) = IF IsKept(entries, entry.key) THEN Len(entries) ELSE Len(entries) + 1
  <1> DEFINE rest == Without(entries, entry.key)
             new == Append(rest, entry)
  <1>1. /\ rest \in Seq(Entries) /\ Distinct(rest)
        /\ Len(rest) = IF IsKept(entries, entry.key) THEN Len(entries) - 1 ELSE Len(entries)
        /\ \A i \in DOMAIN rest :
              rest[i].key # entry.key /\ \E k \in DOMAIN entries : rest[i] = entries[k]
    BY WithoutProperties
  <1> HIDE DEF rest
  <1>2. /\ new \in Seq(Entries) /\ Len(new) = Len(rest) + 1
        /\ \A i \in 1..Len(rest) : new[i] = rest[i]
        /\ new[Len(rest) + 1] = entry
    BY <1>1, AppendProperties
  <1>3. /\ Len(rest) \in Nat /\ Len(entries) \in Nat
        /\ DOMAIN rest = 1..Len(rest) /\ DOMAIN new = 1..(Len(rest) + 1)
    BY <1>1, <1>2, LenProperties
  <1> HIDE DEF new
  <1>4. Made(new, entries, entry)
    BY <1>1, <1>2, <1>3 DEF Made
  <1>5. Distinct(new)
    <2> SUFFICES ASSUME NEW i \in DOMAIN new, NEW k \in DOMAIN new, new[i].key = new[k].key
                 PROVE  i = k
      BY DEF Distinct
    <2>1. CASE i \in 1..Len(rest) /\ k \in 1..Len(rest)
      BY <1>1, <1>2, <1>3, <2>1 DEF Distinct
    <2>2. CASE i \in 1..Len(rest) /\ k = Len(rest) + 1
      BY <1>1, <1>2, <1>3, <2>2
    <2>3. CASE k \in 1..Len(rest) /\ i = Len(rest) + 1
      BY <1>1, <1>2, <1>3, <2>3
    <2> QED
      BY <1>3, <2>1, <2>2, <2>3
  <1> QED
    BY <1>1, <1>2, <1>3, <1>4, <1>5 DEF new, rest

(* What _fallback_set() makes of the dictionary.                           *)
LEMMA EvictedFits ==
  ASSUME NEW entries \in Seq(Entries), Distinct(entries), Len(entries) <= MaxSize + 1
  PROVE  LET new == Evicted(entries)
         IN  /\ new \in Seq(Entries) /\ Distinct(new) /\ Len(new) <= MaxSize
             /\ \A i \in DOMAIN new : \E k \in DOMAIN entries : new[i] = entries[k]
  <1>0. /\ Len(entries) \in Nat /\ DOMAIN entries = 1..Len(entries)
        /\ MaxSize \in Nat /\ MaxSize > 0
    BY LenProperties, CacheAssumption
  <1>1. CASE Len(entries) > MaxSize
    <2> DEFINE new == Tail(entries)
    <2>1. entries # <<>> /\ Evicted(entries) = new
      BY <1>0, <1>1, EmptySeq DEF Evicted
    <2>2. /\ new \in Seq(Entries) /\ Len(new) = Len(entries) - 1
          /\ \A i \in 1..(Len(entries) - 1) : new[i] = entries[i + 1]
      BY <1>0, <2>1
    <2>3. DOMAIN new = 1..(Len(entries) - 1)
      BY <2>2, LenProperties
    <2> HIDE DEF new
    <2>4. \A i \in DOMAIN new : i + 1 \in DOMAIN entries /\ new[i] = entries[i + 1]
      BY <1>0, <2>2, <2>3
    <2>5. Distinct(new)
      BY <1>0, <2>3, <2>4 DEF Distinct
    <2> QED
      BY <1>0, <2>1, <2>2, <2>4, <2>5
  <1>2. CASE ~(Len(entries) > MaxSize)
    BY <1>0, <1>2 DEF Evicted
  <1> QED
    BY <1>1, <1>2

--------------------------------------------------------------------------------

(* Reviews, whatever the cache does, keep their types.                     *)
LEMMA FeedbackStep ==
  ASSUME FeedbackTypeOK, Review \/ UNCHANGED feedback
  PROVE  FeedbackTypeOK'
  <1> USE DEF FeedbackTypeOK
  <1>1. ASSUME NEW r \in Reviewers, OpenReview(r)
        PROVE  FeedbackTypeOK'
    <2>1. PICK a \in Rows, says \in Reviews :
             reviewing' = [reviewing EXCEPT ![r] =
                [row |-> a, says |-> says, saw |-> verdict[a]]]
      BY <1>1 DEF OpenReview
    <2>2. reviews' \in 0..MaxReviews
      BY <1>1, FeedbackAssumption DEF OpenReview
    <2> QED
      BY <1>1, <2>1, <2>2 DEF OpenReview
  <1>2. ASSUME NEW r \in Reviewers, CommitReview(r)
        PROVE  FeedbackTypeOK'
    <2>1. PICK a \in Rows, says \in Reviews, saw \in Verdicts :
             reviewing[r] = [row |-> a, says |-> says, saw |-> saw]
      BY <1>2 DEF CommitReview
    <2>2. says \in Verdicts /\ verdict[a] \in Verdicts
      BY FeedbackAssumption
    <2>3. Merged(verdict[a], reviewing[r]) \in Verdicts
      BY <2>1, <2>2 DEF Merged, Verdicts
    <2>4. verdict' = [verdict EXCEPT ![a] = Merged(verdict[a], reviewing[r])]
      BY <1>2, <2>1 DEF CommitReview
    <2> QED
      BY <1>2, <2>3, <2>4 DEF CommitReview
  <1>3. CASE UNCHANGED feedback
    BY <1>3 DEF feedback
  <1> QED
    BY <1>1, <1>2, <1>3 DEF Review

--------------------------------------------------------------------------------

(* Calls, by where they are; and how they move.                            *)
Calls == Learning \cup Looking \cup Answering \cup Clearing \cup {Idle}

(* The step that a call is at tells which fields it has.                   *)
LEMMA Kinds ==
  ASSUME TypeOK, NEW c \in Callers, Busy(c)
  PROVE  /\ calls[c].at = "negative" => calls[c] \in Learning
         /\ calls[c].at \in {"redis", "memory", "compute"} => calls[c] \in Looking
         /\ calls[c].at \in {"store", "keep", "served"} => calls[c] \in Answering
         /\ calls[c].at = "delete" => calls[c].keys \in SUBSET Keys
         /\ calls[c].at \in {"delete", "forget", "cleared"} => calls[c] \in Clearing
  BY DEF TypeOK, Busy, Learning, Looking, Answering, Clearing

(* And the other way around.                                               *)
LEMMA KindsAreDisjoint ==
  ASSUME NEW call
  PROVE  /\ call \in Learning => call.at = "negative"
         /\ call \in Looking => call.at \in {"redis", "memory", "compute"}
         /\ call \in Answering => call.at \in {"store", "keep", "served"}
         /\ call \in Clearing => call.at \in {"delete", "forget", "cleared"}
  BY DEF Learning, Looking, Answering, Clearing

(* A lookup that goes on to the next store.                                *)
LEMMA CallsGo ==
  ASSUME TypeOK, NEW c \in Callers, calls[c] \in Looking,
         NEW where \in {"redis", "memory", "compute"}, Go(c, where)
  PROVE  /\ calls' \in [Callers -> Calls] /\ \A d \in Callers : d # c => calls'[d] = calls[d]
         /\ calls'[c] \in Looking /\ calls'[c].at = where
         /\ calls'[c].ask = calls[c].ask /\ calls'[c].version = calls[c].version
         /\ calls'[c].examples = calls[c].examples /\ calls'[c].key = calls[c].key
  <1>1. calls' = [calls EXCEPT ![c] = [calls[c] EXCEPT !.at = where]]
    BY DEF Go
  <1>2. /\ [calls[c] EXCEPT !.at = where] \in Looking
        /\ [calls[c] EXCEPT !.at = where].at = where
        /\ [calls[c] EXCEPT !.at = where].ask = calls[c].ask
        /\ [calls[c] EXCEPT !.at = where].version = calls[c].version
        /\ [calls[c] EXCEPT !.at = where].examples = calls[c].examples
        /\ [calls[c] EXCEPT !.at = where].key = calls[c].key
    BY DEF Looking
  <1> QED
    BY <1>1, <1>2 DEF TypeOK, Calls

(* A result that Redis would not take.                                     *)
LEMMA CallsKeep ==
  ASSUME TypeOK, NEW c \in Callers, calls[c] \in Answering, Go(c, "keep")
  PROVE  /\ calls' \in [Callers -> Calls] /\ \A d \in Callers : d # c => calls'[d] = calls[d]
         /\ calls'[c] \in Answering /\ calls'[c].at = "keep"
         /\ calls'[c].ask = calls[c].ask /\ calls'[c].version = calls[c].version
         /\ calls'[c].examples = calls[c].examples /\ calls'[c].key = calls[c].key
         /\ calls'[c].result = calls[c].result
  <1> DEFINE call == [calls[c] EXCEPT !.at = "keep"]
  <1>1. calls' = [calls EXCEPT ![c] = call]
    BY DEF Go
  <1>2. /\ call \in Answering /\ call.at = "keep"
        /\ call.ask = calls[c].ask /\ call.version = calls[c].version
        /\ call.examples = calls[c].examples /\ call.key = calls[c].key
        /\ call.result = calls[c].result
    BY DEF Answering
  <1> HIDE DEF call
  <1> QED
    BY <1>1, <1>2 DEF TypeOK, Calls

(* A call that has a result.                                               *)
LEMMA CallsAnswer ==
  ASSUME TypeOK, NEW c \in Callers, calls[c] \in Looking \cup Answering,
         NEW result \in Results, NEW where \in {"store", "keep", "served"},
         Answer(c, where, result)
  PROVE  /\ calls' \in [Callers -> Calls] /\ \A d \in Callers : d # c => calls'[d] = calls[d]
         /\ calls'[c] \in Answering /\ calls'[c].at = where
         /\ calls'[c].ask = calls[c].ask /\ calls'[c].version = calls[c].version
         /\ calls'[c].examples = calls[c].examples /\ calls'[c].key = calls[c].key
         /\ calls'[c].result = result
  <1> DEFINE call == [at |-> where, ask |-> calls[c].ask, version |-> calls[c].version,
                      examples |-> calls[c].examples, key |-> calls[c].key,
                      result |-> result]
  <1>1. calls' = [calls EXCEPT ![c] = call]
    BY DEF Answer
  <1>2. /\ call \in Answering /\ call.at = where
        /\ call.ask = calls[c].ask /\ call.version = calls[c].version
        /\ call.examples = calls[c].examples /\ call.key = calls[c].key
        /\ call.result = result
    BY DEF Answering, Looking
  <1> HIDE DEF call
  <1> QED
    BY <1>1, <1>2 DEF TypeOK, Calls

(* A call that begins anew.                                                *)
LEMMA CallsBecome ==
  ASSUME TypeOK, NEW c \in Callers, NEW call \in Calls, calls' = [calls EXCEPT ![c] = call]
  PROVE  /\ calls' \in [Callers -> Calls] /\ \A d \in Callers : d # c => calls'[d] = calls[d]
         /\ calls'[c] = call
  BY DEF TypeOK, Calls

(* Whatever is asked, its key is one of Keys.                              *)
LEMMA KeysOfCalls ==
  ASSUME NEW ask \in Asked, NEW ver \in AllVersions
  PROVE  /\ KeyOf(ask, ver, NoExtra) \in Keys
         /\ \A e \in ExampleSets : KeyOf(ask, ver, Signature(e)) \in Keys
         /\ NoExamples \in ExampleSets
  <1>1. KeyOf(ask, ver, NoExtra) \in Keys
    BY DEF Keys
  <1>2. \A e \in ExampleSets : KeyOf(ask, ver, Signature(e)) \in Keys
    BY DEF Keys
  <1>3. {} \in AtMost(MaxPositive) /\ {} \in AtMost(MaxNegative)
    BY FS_EmptySet, FeedbackAssumption DEF AtMost
  <1> QED
    BY <1>1, <1>2, <1>3 DEF NoExamples, ExampleSets

--------------------------------------------------------------------------------

(* A key tells what its result was made for.                               *)
LEMMA FitsAgree ==
  ASSUME NEW key, NEW q, NEW other, Fits(key, q), Fits(key, other)
  PROVE  /\ other.ask = q.ask /\ other.version = q.version
         /\ Signature(other.examples) = Signature(q.examples)
  <1>1. \A call : Fits(key, call) =>
           \E extra : key = <<call.ask, call.version, extra>>
    BY DEF Fits, KeyOf
  <1>2. PICK one : key = <<q.ask, q.version, one>>
    BY <1>1
  <1>3. PICK two : key = <<other.ask, other.version, two>>
    BY <1>1
  <1>4. other.ask = q.ask /\ other.version = q.version
    BY <1>2, <1>3
  <1>5. CASE q.version = EvalVersion
    BY <1>4, <1>5 DEF Fits
  <1>6. CASE q.version # EvalVersion
    BY <1>4, <1>6 DEF Fits, KeyOf
  <1> QED
    BY <1>4, <1>5, <1>6

(* The key fits whatever was made from the same.                           *)
LEMMA FitsSame ==
  ASSUME NEW key, NEW q, NEW other, Fits(key, q),
         other.ask = q.ask, other.version = q.version, other.examples = q.examples
  PROVE  Fits(key, other)
  BY DEF Fits

(* The type, part by part.                                                 *)
RedisTyped == DOMAIN redis \subseteq Keys /\ redis \in [DOMAIN redis -> Results]
MemoryTyped ==
    /\ memory \in [Processes -> Seq(Entries)]
    /\ \A p \in Processes : Len(memory[p]) <= MaxSize /\ Distinct(memory[p])
RestTyped ==
    /\ redisUp \in BOOLEAN /\ forgot \in BOOLEAN /\ version \in Versions
    /\ run \in 0..MaxRuns
    /\ asked \in 0..MaxAsked /\ outages \in 0..MaxOutages /\ restarts \in 0..MaxRestarts

(* The parts are all there is to TypeOK.                                   *)
LEMMA TypeInParts ==
  TypeOK <=> /\ FeedbackTypeOK /\ RedisTyped /\ MemoryTyped /\ RestTyped
             /\ calls \in [Callers -> Calls]
  BY DEF TypeOK, RedisTyped, MemoryTyped, RestTyped, Calls, Distinct

(* A step of the cache keeps the type if it keeps these parts.             *)
LEMMA TypeStays ==
  ASSUME TypeOK, UNCHANGED feedback, RedisTyped', MemoryTyped', RestTyped',
         calls' \in [Callers -> Calls]
  PROVE  TypeOK'
  <1>1. FeedbackTypeOK'
    BY TypeInParts DEF feedback, FeedbackTypeOK
  <1>2. TypeOK' <=> /\ FeedbackTypeOK' /\ RedisTyped' /\ MemoryTyped' /\ RestTyped'
                    /\ calls' \in [Callers -> Calls]
    BY DEF TypeOK, RedisTyped, MemoryTyped, RestTyped, Calls, Distinct
  <1> QED
    BY <1>1, <1>2

(* What is said of each call, when one of them moves.                      *)
OthersStay(c) == \A d \in Callers : d # c => calls'[d] = calls[d]

(* One call moves: the others are as they were.                            *)
LEMMA OneCall ==
  ASSUME NEW c \in Callers, Roles, CallsFit, OthersStay(c), RoleOf(c)', FitOf(c)'
  PROVE  Roles' /\ CallsFit'
  <1>1. ASSUME NEW d \in Callers, d # c PROVE RoleOf(d)' /\ FitOf(d)'
    <2>1. calls'[d] = calls[d] /\ RoleOf(d) /\ FitOf(d)
      BY <1>1 DEF OthersStay, Roles, CallsFit
    <2> QED
      BY <2>1 DEF RoleOf, FitOf, Busy, LookedUp, Has
  <1> QED
    BY <1>1 DEF Roles, CallsFit

(* A call that has looked up its key stays what it is about.               *)
LEMMA OneLookup ==
  ASSUME NEW c \in Callers, Roles, CallsFit, OthersStay(c), LookedUp(c),
         calls'[c] \in Looking \cup Answering,
         calls'[c].ask = calls[c].ask, calls'[c].version = calls[c].version,
         calls'[c].examples = calls[c].examples, calls'[c].key = calls[c].key,
         calls'[c] \in Answering => Fits(calls[c].key, calls'[c].result)
  PROVE  Roles' /\ CallsFit'
  <1>1. calls'[c] \notin Learning /\ calls'[c] \notin Clearing
    BY KindsAreDisjoint
  <1>2. calls[c].version = EvalVersion <=> c = Script
    BY DEF Roles, RoleOf, LookedUp
  <1>3. RoleOf(c)'
    BY <1>1, <1>2 DEF RoleOf
  <1>4. Fits(calls[c].key, calls[c])
    BY DEF CallsFit, FitOf
  <1>5. Fits(calls[c].key, calls'[c])
    BY <1>4, FitsSame
  <1>6. FitOf(c)'
    BY <1>5 DEF FitOf, Has, LookedUp, Fits
  <1> QED
    BY <1>3, <1>6, OneCall

(* What is kept of the script's runs, while both stores stay.              *)
LEMMA StoresStay ==
  ASSUME IInv, UNCHANGED <<redis, memory, run, forgot>>,
         calls'[Script] = calls[Script] \/ (Cleared /\ Cleared')
  PROVE  RedisFits' /\ MemoryFits' /\ RunInMemory' /\ RunInRedis' /\ Listed'
  <1> USE DEF IInv
  <1>1. RedisFits'
    BY DEF RedisFits
  <1>2. MemoryFits'
    BY DEF MemoryFits
  <1>3. RunInRedis'
    BY DEF RunInRedis, OfScript
  <1>4. RunInMemory'
    BY DEF RunInMemory, Cleared, At, Busy
  <1>5. Listed'
    BY DEF Listed, Cleared, At, Busy, OfScript
  <1> QED
    BY <1>1, <1>2, <1>3, <1>4, <1>5

(* The script's result is of its run while neither changes.                *)
LEMMA RunStays ==
  ASSUME RunInCall, calls'[Script] = calls[Script], UNCHANGED <<run, forgot>>
  PROVE  RunInCall'
  BY DEF RunInCall, FreshlyAssessed, At

--------------------------------------------------------------------------------

(* The script is no job, and its version is none of the server's.          *)
LEMMA Constants ==
  /\ Script \in Callers /\ Jobs \subseteq Callers
  /\ \A c \in Callers : c \in Jobs <=> c # Script
  /\ EvalVersion \notin Versions /\ Versions \subseteq AllVersions
  /\ EvalVersion \in AllVersions
  /\ \A c \in Callers : ProcessOf(c) \in Processes /\
        (ProcessOf(c) = "evaluation" <=> c = Script)
  BY CacheAssumption DEF Callers, EvalVersion, AllVersions, ProcessOf, Processes

(* A job begins: it is no lookup yet.                                      *)
LEMMA QueryConfirmedKeeps ==
  ASSUME IInv, NEW c \in Callers, QueryConfirmed(c)
  PROVE  IInv'
  <1> USE DEF IInv
  <1>1. PICK ask \in Asked : calls' = [calls EXCEPT ![c] = [at |-> "negative", ask |-> ask,
            positive |-> Newest(ask.policy, "confirmed", MaxPositive)]]
    BY DEF QueryConfirmed
  <1> DEFINE call == [at |-> "negative", ask |-> ask,
                      positive |-> Newest(ask.policy, "confirmed", MaxPositive)]
  <1>2. call \in Learning
    BY NewestIsBounded, FeedbackAssumption DEF Learning
  <1>3. call \in Calls
    BY <1>2 DEF Calls
  <1> HIDE DEF call
  <1>4. /\ calls' \in [Callers -> Calls] /\ OthersStay(c) /\ calls'[c] = call
    BY <1>1, <1>3, CallsBecome DEF OthersStay, call
  <1>5. c \in Jobs /\ c # Script /\ asked' = asked + 1 /\ asked < MaxAsked
        /\ UNCHANGED <<feedback, redisUp, redis, memory, version, run, forgot, outages, restarts>>
    BY Constants DEF QueryConfirmed
  <1>6. TypeOK'
    <2>1. RestTyped'
      BY <1>5, TypeInParts, CacheAssumption DEF RestTyped
    <2>2. RedisTyped' /\ MemoryTyped'
      BY <1>5, TypeInParts DEF RedisTyped, MemoryTyped
    <2> QED
      BY <1>4, <1>5, <2>1, <2>2, TypeStays
  <1>7. RoleOf(c)' /\ FitOf(c)'
    <2>1. calls'[c] \notin Looking /\ calls'[c] \notin Answering /\ calls'[c] \notin Clearing
      BY <1>2, <1>4, KindsAreDisjoint
    <2> QED
      BY <1>5, <2>1 DEF RoleOf, FitOf, LookedUp, Has
  <1>8. Roles' /\ CallsFit'
    BY <1>4, <1>7, OneCall
  <1>9. calls'[Script] = calls[Script]
    BY <1>4, <1>5, Constants DEF OthersStay
  <1>10. RedisFits' /\ MemoryFits' /\ RunInMemory' /\ RunInRedis' /\ Listed' /\ RunInCall'
    BY <1>5, <1>9, StoresStay, RunStays
  <1> QED
    BY <1>6, <1>8, <1>10

(* A job asks under the signature of the examples it has just read.        *)
LEMMA QueryRejectedKeeps ==
  ASSUME IInv, NEW c \in Callers, QueryRejected(c)
  PROVE  IInv'
  <1> USE DEF IInv
  <1> DEFINE examples == [positive |-> calls[c].positive,
                 negative |-> Newest(calls[c].ask.policy, "rejected", MaxNegative)]
             call == [at |-> "redis", ask |-> calls[c].ask, version |-> version,
                      examples |-> examples,
                      key |-> KeyOf(calls[c].ask, version, Signature(examples))]
  <1>1. calls' = [calls EXCEPT ![c] = call]
    BY DEF QueryRejected, Lookup
  <1>2. calls[c] \in Learning /\ Busy(c)
    BY Kinds DEF QueryRejected, At, Busy
  <1>3. c \in Jobs /\ c # Script
    BY <1>2, Constants DEF Roles, RoleOf
  <1>4. version \in Versions /\ version \in AllVersions /\ version # EvalVersion
    BY Constants DEF TypeOK
  <1>5. calls[c].ask \in Asked /\ examples \in ExampleSets
    BY <1>2, NewestIsBounded, FeedbackAssumption DEF Learning, ExampleSets
  <1> HIDE DEF examples
  <1>6. call \in Looking
    BY <1>4, <1>5, KeysOfCalls DEF Looking
  <1>7. call.version = version /\ Fits(call.key, call)
    BY <1>4 DEF Fits
  <1> HIDE DEF call
  <1>8. call \in Calls
    BY <1>6 DEF Calls
  <1>9. calls' \in [Callers -> Calls] /\ OthersStay(c) /\ calls'[c] = call
    BY <1>1, <1>8, CallsBecome DEF OthersStay
  <1>10. UNCHANGED <<feedback, redisUp, redis, memory, version, run, forgot, asked, outages, restarts>>
    BY DEF QueryRejected, Uncounted
  <1>11. TypeOK'
    <2>1. RestTyped'
      BY <1>10, TypeInParts DEF RestTyped
    <2>2. RedisTyped' /\ MemoryTyped'
      BY <1>10, TypeInParts DEF RedisTyped, MemoryTyped
    <2> QED
      BY <1>9, <1>10, <2>1, <2>2, TypeStays
  <1>12. RoleOf(c)' /\ FitOf(c)'
    <2>1. calls'[c] \notin Learning /\ calls'[c] \notin Answering /\ calls'[c] \notin Clearing
      BY <1>6, <1>9, KindsAreDisjoint
    <2>2. calls'[c].version # EvalVersion /\ Fits(calls'[c].key, calls'[c])
      BY <1>4, <1>7, <1>9
    <2>3. RoleOf(c)'
      BY <1>3, <2>1, <2>2 DEF RoleOf
    <2>4. FitOf(c)'
      BY <2>1, <2>2 DEF FitOf, LookedUp, Has, Fits
    <2> QED
      BY <2>3, <2>4
  <1>13. Roles' /\ CallsFit'
    BY <1>9, <1>12, OneCall
  <1>14. calls'[Script] = calls[Script]
    BY <1>3, <1>9, Constants DEF OthersStay
  <1>15. RedisFits' /\ MemoryFits' /\ RunInMemory' /\ RunInRedis' /\ Listed' /\ RunInCall'
    BY <1>10, <1>14, StoresStay, RunStays
  <1> QED
    BY <1>11, <1>13, <1>15

(* The script asks once it has cleared, with neither signature nor         *)
(* examples.                                                               *)
LEMMA EvaluateKeeps ==
  ASSUME IInv, Evaluate
  PROVE  IInv'
  <1> USE DEF IInv
  <1>1. PICK ask \in Asked : Lookup(Script, ask, EvalVersion, NoExamples, NoExtra)
    BY DEF Evaluate
  <1> DEFINE call == [at |-> "redis", ask |-> ask, version |-> EvalVersion,
                      examples |-> NoExamples, key |-> KeyOf(ask, EvalVersion, NoExtra)]
  <1>2. calls' = [calls EXCEPT ![Script] = call]
    BY <1>1 DEF Lookup
  <1>3. call \in Looking /\ call.at = "redis"
    BY Constants, KeysOfCalls DEF Looking
  <1>4. call.version = EvalVersion /\ Fits(call.key, call)
    BY DEF Fits
  <1> HIDE DEF call
  <1>5. call \in Calls
    BY <1>3 DEF Calls
  <1>6. calls' \in [Callers -> Calls] /\ OthersStay(Script) /\ calls'[Script] = call
    BY <1>2, <1>5, CallsBecome, Constants DEF OthersStay
  <1>7. /\ asked < MaxAsked /\ asked' = asked + 1
        /\ UNCHANGED <<feedback, redisUp, redis, memory, version, run, forgot, outages, restarts>>
    BY DEF Evaluate
  <1>8. TypeOK'
    <2>1. RestTyped'
      BY <1>7, TypeInParts, CacheAssumption DEF RestTyped
    <2>2. RedisTyped' /\ MemoryTyped'
      BY <1>7, TypeInParts DEF RedisTyped, MemoryTyped
    <2> QED
      BY <1>6, <1>7, <2>1, <2>2, TypeStays
  <1>9. RoleOf(Script)' /\ FitOf(Script)'
    <2>1. /\ calls'[Script] \notin Learning /\ calls'[Script] \notin Answering
          /\ calls'[Script] \notin Clearing
      BY <1>3, <1>6, KindsAreDisjoint
    <2>2. calls'[Script].version = EvalVersion /\ Fits(calls'[Script].key, calls'[Script])
      BY <1>4, <1>6
    <2>3. RoleOf(Script)'
      BY <2>1, <2>2 DEF RoleOf
    <2>4. FitOf(Script)'
      BY <2>1, <2>2 DEF FitOf, LookedUp, Has, Fits
    <2> QED
      BY <2>3, <2>4
  <1>10. Roles' /\ CallsFit'
    BY <1>6, <1>9, OneCall, Constants
  <1>11. Cleared
    BY DEF Evaluate, At, Cleared, Busy
  <1>12. calls'[Script].at = "redis"
    BY <1>3, <1>6
  <1>13. RedisFits' /\ MemoryFits' /\ RunInRedis' 
    BY <1>7 DEF RedisFits, MemoryFits, RunInRedis, OfScript
  <1>14. RunInMemory' /\ Listed'
    BY <1>7, <1>11, <1>12 DEF RunInMemory, Listed, At
  <1>15. RunInCall'
    BY <1>12 DEF RunInCall, FreshlyAssessed, At
  <1> QED
    BY <1>8, <1>10, <1>13, <1>14, <1>15

(* What Redis has under the key fits the question; for the script, it is   *)
(* of its own version, hence, if its clear reached Redis, of its own run.  *)
LEMMA GetRedisKeeps ==
  ASSUME IInv, NEW c \in Callers, GetRedis(c)
  PROVE  IInv'
  <1> USE DEF IInv
  <1>1. calls[c] \in Looking /\ Busy(c) /\ LookedUp(c)
    BY Kinds DEF GetRedis, At, Busy, LookedUp
  <1>2. UNCHANGED <<feedback, redisUp, redis, memory, version, run, forgot, asked, outages, restarts>>
    BY DEF GetRedis, Uncounted
  <1>3. RestTyped' /\ RedisTyped' /\ MemoryTyped'
    <2>1. RestTyped'
      BY <1>2, TypeInParts DEF RestTyped
    <2>2. RedisTyped' /\ MemoryTyped'
      BY <1>2, TypeInParts DEF RedisTyped, MemoryTyped
    <2> QED
      BY <2>1, <2>2
  <1>4. Fits(calls[c].key, calls[c])
    BY <1>1 DEF CallsFit, FitOf
  <1>5. CASE redisUp /\ calls[c].key \in DOMAIN redis
    <2>0. redis[calls[c].key] \in Results
      BY <1>5, TypeInParts DEF RedisTyped
    <2>1. PICK result \in Results, key \in DOMAIN redis :
             key = calls[c].key /\ result = redis[key]
      BY <1>5, <2>0
    <2>2. Answer(c, "served", result)
      BY <1>5, <2>1 DEF GetRedis, Return
    <2>3. Fits(key, result)
      BY <2>1 DEF RedisFits
    <2>4. /\ calls' \in [Callers -> Calls] /\ OthersStay(c)
          /\ calls'[c] \in Answering /\ calls'[c].at = "served"
          /\ calls'[c].ask = calls[c].ask /\ calls'[c].version = calls[c].version
          /\ calls'[c].examples = calls[c].examples /\ calls'[c].key = calls[c].key
          /\ calls'[c].result = result
      BY <1>1, <2>2, CallsAnswer DEF OthersStay
    <2>5. TypeOK'
      BY <1>2, <1>3, <2>4, TypeStays
    <2>6. Roles' /\ CallsFit'
      BY <1>1, <2>1, <2>3, <2>4, OneLookup
    <2>7. CASE c = Script
      <3>1. calls[Script].version = EvalVersion
        BY <1>1, <2>7 DEF Roles, RoleOf
      <3>2. result.version = EvalVersion
        BY <1>4, <2>1, <2>3, <2>7, <3>1, FitsAgree
      <3>3. forgot => result.run = run
        BY <2>1, <3>2 DEF RunInRedis, OfScript
      <3>4. Cleared
        BY <1>1, <2>7, KindsAreDisjoint DEF Cleared, At, Busy
      <3>5. RunInCall'
        BY <1>2, <2>4, <2>7, <3>3 DEF RunInCall, FreshlyAssessed, At
      <3>6. RedisFits' /\ MemoryFits' /\ RunInRedis'
        BY <1>2 DEF RedisFits, MemoryFits, RunInRedis, OfScript
      <3>7. RunInMemory' /\ Listed'
        BY <1>2, <2>4, <2>7, <3>4 DEF RunInMemory, Listed, At
      <3> QED
        BY <2>5, <2>6, <3>5, <3>6, <3>7
    <2>8. CASE c # Script
      <3>1. calls'[Script] = calls[Script]
        BY <2>4, <2>8, Constants DEF OthersStay
      <3> QED
        BY <1>2, <2>5, <2>6, <3>1, StoresStay, RunStays
    <2> QED
      BY <2>7, <2>8
  <1>6. CASE ~(redisUp /\ calls[c].key \in DOMAIN redis)
    <2>1. Go(c, "memory")
      BY <1>6 DEF GetRedis
    <2>2. /\ calls' \in [Callers -> Calls] /\ OthersStay(c)
          /\ calls'[c] \in Looking /\ calls'[c].at = "memory"
          /\ calls'[c].ask = calls[c].ask /\ calls'[c].version = calls[c].version
          /\ calls'[c].examples = calls[c].examples /\ calls'[c].key = calls[c].key
      BY <1>1, <2>1, CallsGo DEF OthersStay
    <2>3. TypeOK'
      BY <1>2, <1>3, <2>2, TypeStays
    <2>4. calls'[c] \notin Answering
      BY <2>2, KindsAreDisjoint
    <2>5. Roles' /\ CallsFit'
      BY <1>1, <2>2, <2>4, OneLookup
    <2>6. CASE c = Script
      <3>1. Cleared
        BY <1>1, <2>6, KindsAreDisjoint DEF Cleared, At, Busy
      <3>2. RunInCall'
        BY <2>2, <2>6 DEF RunInCall, FreshlyAssessed, At
      <3>3. RedisFits' /\ MemoryFits' /\ RunInRedis'
        BY <1>2 DEF RedisFits, MemoryFits, RunInRedis, OfScript
      <3>4. RunInMemory' /\ Listed'
        BY <1>2, <2>2, <2>6, <3>1 DEF RunInMemory, Listed, At
      <3> QED
        BY <2>3, <2>5, <3>2, <3>3, <3>4
    <2>7. CASE c # Script
      <3>1. calls'[Script] = calls[Script]
        BY <2>2, <2>7, Constants DEF OthersStay
      <3> QED
        BY <1>2, <2>3, <2>5, <3>1, StoresStay, RunStays
    <2> QED
      BY <2>6, <2>7
  <1> QED
    BY <1>5, <1>6

(* A dictionary in which an entry that fits is put last.                   *)
LEMMA MemoryPut ==
  ASSUME IInv, NEW c \in Callers, NEW entry \in Entries, NEW new,
         Fits(entry.key, entry.result),
         new \in Seq(Entries), Distinct(new), Len(new) <= MaxSize,
         Made(new, memory[ProcessOf(c)], entry),
         memory' = [memory EXCEPT ![ProcessOf(c)] = new], run' = run,
         c = Script => Cleared /\ entry.result.run = run,
         c # Script => calls'[Script] = calls[Script]
  PROVE  MemoryTyped' /\ MemoryFits' /\ RunInMemory'
  <1> USE DEF IInv
  <1>1. PICK p \in Processes : p = ProcessOf(c) /\ (p = "evaluation" <=> c = Script)
    BY Constants
  <1>2. /\ memory \in [Processes -> Seq(Entries)] /\ memory' = [memory EXCEPT ![p] = new]
        /\ Made(new, memory[p], entry)
    BY <1>1, TypeInParts DEF MemoryTyped
  <1>3. memory'[p] = new /\ \A q \in Processes : q # p => memory'[q] = memory[q]
    BY <1>2
  <1>4. MemoryTyped'
    <2>1. memory' \in [Processes -> Seq(Entries)]
      BY <1>2
    <2>2. ASSUME NEW q \in Processes PROVE Len(memory'[q]) <= MaxSize /\ Distinct(memory'[q])
      BY <1>3, TypeInParts DEF MemoryTyped
    <2> QED
      BY <2>1, <2>2 DEF MemoryTyped, Distinct
  <1>5. ASSUME NEW i \in DOMAIN new PROVE Fits(new[i].key, new[i].result)
    BY <1>1, <1>2 DEF Made, MemoryFits
  <1>6. MemoryFits'
    <2>1. ASSUME NEW q \in Processes, NEW i \in DOMAIN memory'[q]
          PROVE  Fits(memory'[q][i].key, memory'[q][i].result)
      BY <1>3, <1>5 DEF MemoryFits
    <2> QED
      BY <2>1 DEF MemoryFits, Fits
  <1>7. RunInMemory'
    <2>1. CASE c = Script
      <3>1. \A i \in DOMAIN memory[p] : memory[p][i].result.run = run
        BY <1>1, <2>1 DEF RunInMemory
      <3>2. \A i \in DOMAIN new : new[i].result.run = run
        BY <1>2, <2>1, <3>1 DEF Made
      <3>3. memory'["evaluation"] = new
        BY <1>1, <1>3, <2>1
      <3> QED
        BY <3>2, <3>3 DEF RunInMemory
    <2>2. CASE c # Script
      <3>1. memory'["evaluation"] = memory["evaluation"]
        BY <1>1, <1>3, <2>2 DEF Processes
      <3>2. Cleared' => Cleared
        BY <2>2 DEF Cleared, Busy, At
      <3> QED
        BY <3>1, <3>2 DEF RunInMemory
    <2> QED
      BY <2>1, <2>2
  <1> QED
    BY <1>4, <1>6, <1>7

(* A lookup that goes on, while Redis stays.                               *)
LEMMA RedisStays ==
  ASSUME IInv, UNCHANGED <<redis, run, forgot>>,
         calls'[Script] = calls[Script] \/ ~At(Script, "delete")'
  PROVE  RedisFits' /\ RunInRedis' /\ Listed'
  <1> USE DEF IInv
  <1>1. RedisFits'
    BY DEF RedisFits
  <1>2. RunInRedis'
    BY DEF RunInRedis, OfScript
  <1>3. Listed'
    BY DEF Listed, At, OfScript
  <1> QED
    BY <1>1, <1>2, <1>3

(* What the dictionary has under the key fits too, and stays in it as the  *)
(* most recent entry; the script's has only entries of its run.            *)
LEMMA GetMemoryKeeps ==
  ASSUME IInv, NEW c \in Callers, GetMemory(c)
  PROVE  IInv'
  <1> USE DEF IInv
  <1>1. calls[c] \in Looking /\ Busy(c) /\ LookedUp(c)
    BY Kinds DEF GetMemory, At, Busy, LookedUp
  <1>2. UNCHANGED <<feedback, redisUp, redis, version, run, forgot, asked, outages, restarts>>
    BY DEF GetMemory, Uncounted
  <1>3. RestTyped' /\ RedisTyped'
    <2>1. RestTyped'
      BY <1>2, TypeInParts DEF RestTyped
    <2>2. RedisTyped'
      BY <1>2, TypeInParts DEF RedisTyped
    <2> QED
      BY <2>1, <2>2
  <1>4. PICK p \in Processes, key \in {calls[c].key} :
           /\ p = ProcessOf(c) /\ (p = "evaluation" <=> c = Script)
           /\ key = calls[c].key
    BY Constants
  <1>5. memory[p] \in Seq(Entries) /\ Distinct(memory[p]) /\ Len(memory[p]) <= MaxSize
    BY TypeInParts DEF MemoryTyped
  <1>6. c = Script => Cleared
    BY <1>1, KindsAreDisjoint DEF Cleared, At, Busy
  <1>7. CASE IsKept(memory[p], key)
    <2>1. PICK i \in DOMAIN memory[p], hit \in Entries :
             /\ i = PlaceOf(memory[p], key) /\ hit = memory[p][i] /\ hit.key = key
      BY <1>5, <1>7, PlaceIsKept, LenProperties
    <2>2. PICK result \in Results : result = hit.result
      BY DEF Entries
    <2>3. Answer(c, "served", result)
      BY <1>4, <1>7, <2>1, <2>2 DEF GetMemory, Return
    <2> DEFINE new == Append(Without(memory[p], key), hit)
    <2>4. memory' = [memory EXCEPT ![p] = new]
      BY <1>4, <1>7, <2>1 DEF GetMemory
    <2>5. /\ new \in Seq(Entries) /\ Distinct(new) /\ Made(new, memory[p], hit)
          /\ Len(new) = Len(memory[p])
      BY <1>5, <1>7, <2>1, PutLast
    <2> HIDE DEF new
    <2>6. Fits(key, result)
      BY <2>1, <2>2 DEF MemoryFits
    <2>7. c = Script => result.run = run
      BY <1>4, <1>6, <2>1, <2>2 DEF RunInMemory
    <2>8. /\ calls' \in [Callers -> Calls] /\ OthersStay(c)
          /\ calls'[c] \in Answering /\ calls'[c].at = "served"
          /\ calls'[c].ask = calls[c].ask /\ calls'[c].version = calls[c].version
          /\ calls'[c].examples = calls[c].examples /\ calls'[c].key = calls[c].key
          /\ calls'[c].result = result
      BY <1>1, <2>3, CallsAnswer DEF OthersStay
    <2>9. c # Script => calls'[Script] = calls[Script]
      BY <2>8, Constants DEF OthersStay
    <2>10. MemoryTyped' /\ MemoryFits' /\ RunInMemory'
      BY <1>2, <1>4, <1>5, <1>6, <2>1, <2>2, <2>4, <2>5, <2>6, <2>7, <2>9, MemoryPut
    <2>11. TypeOK'
      BY <1>2, <1>3, <2>8, <2>10, TypeStays
    <2>12. Roles' /\ CallsFit'
      BY <1>1, <1>4, <2>6, <2>8, OneLookup
    <2>13. RedisFits' /\ RunInRedis' /\ Listed'
      BY <1>2, <2>8, <2>9, RedisStays DEF At
    <2>14. RunInCall'
      <3>1. CASE c = Script
        BY <1>2, <2>7, <2>8, <3>1 DEF RunInCall, FreshlyAssessed, At
      <3> QED
        BY <1>2, <2>9, <3>1, RunStays
    <2> QED
      BY <2>10, <2>11, <2>12, <2>13, <2>14
  <1>8. CASE ~IsKept(memory[p], key)
    <2>1. Go(c, "compute") /\ UNCHANGED memory
      BY <1>4, <1>8 DEF GetMemory
    <2>2. /\ calls' \in [Callers -> Calls] /\ OthersStay(c)
          /\ calls'[c] \in Looking /\ calls'[c].at = "compute"
          /\ calls'[c].ask = calls[c].ask /\ calls'[c].version = calls[c].version
          /\ calls'[c].examples = calls[c].examples /\ calls'[c].key = calls[c].key
      BY <1>1, <2>1, CallsGo DEF OthersStay
    <2>3. MemoryTyped'
      BY <2>1, TypeInParts DEF MemoryTyped
    <2>4. TypeOK'
      BY <1>2, <1>3, <2>2, <2>3, TypeStays
    <2>5. calls'[c] \notin Answering
      BY <2>2, KindsAreDisjoint
    <2>6. Roles' /\ CallsFit'
      BY <1>1, <2>2, <2>5, OneLookup
    <2>7. c # Script => calls'[Script] = calls[Script]
      BY <2>2, Constants DEF OthersStay
    <2>8. RedisFits' /\ RunInRedis' /\ Listed'
      BY <1>2, <2>2, <2>7, RedisStays DEF At
    <2>9. MemoryFits'
      BY <2>1 DEF MemoryFits
    <2>10. RunInMemory' /\ RunInCall'
      <3>1. CASE c = Script
        <4>1. RunInMemory'
          BY <1>2, <1>6, <2>1, <3>1 DEF RunInMemory
        <4>2. RunInCall'
          BY <2>2, <3>1 DEF RunInCall, FreshlyAssessed, At
        <4> QED
          BY <4>1, <4>2
      <3>2. CASE c # Script
        BY <1>2, <2>1, <2>7, <3>2, StoresStay, RunStays
      <3> QED
        BY <3>1, <3>2
    <2> QED
      BY <2>4, <2>6, <2>8, <2>9, <2>10
  <1> QED
    BY <1>7, <1>8

(* A result is made from what its key was made from.                       *)
LEMMA ComputeKeeps ==
  ASSUME IInv, NEW c \in Callers, Compute(c)
  PROVE  IInv'
  <1> USE DEF IInv
  <1>1. calls[c] \in Looking /\ Busy(c) /\ LookedUp(c)
    BY Kinds DEF Compute, At, Busy, LookedUp
  <1>2. UNCHANGED <<feedback, redisUp, redis, memory, version, run, forgot, asked, outages, restarts>>
    BY DEF Compute, Uncounted
  <1>3. RestTyped' /\ RedisTyped' /\ MemoryTyped'
    <2>1. RestTyped'
      BY <1>2, TypeInParts DEF RestTyped
    <2>2. RedisTyped' /\ MemoryTyped'
      BY <1>2, TypeInParts DEF RedisTyped, MemoryTyped
    <2> QED
      BY <2>1, <2>2
  <1> DEFINE made == [ask |-> calls[c].ask, version |-> calls[c].version,
                      examples |-> calls[c].examples, run |-> IF c = Script THEN run ELSE 0]
  <1>4. CASE Answer(c, "store", made)
    <2>1. made \in Results
      BY <1>1, CacheAssumption DEF Looking, Results, TypeOK
    <2>2. Fits(calls[c].key, made) /\ (c = Script => made.run = run)
      <3>1. Fits(calls[c].key, calls[c])
        BY <1>1 DEF CallsFit, FitOf
      <3> QED
        BY <3>1, FitsSame
    <2> HIDE DEF made
    <2>3. /\ calls' \in [Callers -> Calls] /\ OthersStay(c)
          /\ calls'[c] \in Answering /\ calls'[c].at = "store"
          /\ calls'[c].ask = calls[c].ask /\ calls'[c].version = calls[c].version
          /\ calls'[c].examples = calls[c].examples /\ calls'[c].key = calls[c].key
          /\ calls'[c].result = made
      BY <1>1, <1>4, <2>1, CallsAnswer DEF OthersStay
    <2>4. TypeOK'
      BY <1>2, <1>3, <2>3, TypeStays
    <2>5. Roles' /\ CallsFit'
      BY <1>1, <2>2, <2>3, OneLookup
    <2>6. CASE c = Script
      <3>1. Cleared
        BY <1>1, <2>6, KindsAreDisjoint DEF Cleared, At, Busy
      <3>2. RunInCall'
        BY <1>2, <2>2, <2>3, <2>6 DEF RunInCall, FreshlyAssessed, At
      <3>3. RedisFits' /\ RunInRedis' /\ Listed'
        BY <1>2, <2>3, <2>6, RedisStays DEF At
      <3>4. RunInMemory' /\ MemoryFits'
        BY <1>2, <3>1 DEF RunInMemory, MemoryFits
      <3> QED
        BY <2>4, <2>5, <3>2, <3>3, <3>4
    <2>7. CASE c # Script
      <3>1. calls'[Script] = calls[Script]
        BY <2>3, <2>7, Constants DEF OthersStay
      <3> QED
        BY <1>2, <2>4, <2>5, <3>1, StoresStay, RunStays
    <2> QED
      BY <2>6, <2>7
  <1>5. CASE c \in Jobs /\ calls' = [calls EXCEPT ![c] = Idle]
    <2>1. Idle \in Calls
      BY DEF Calls
    <2>2. /\ calls' \in [Callers -> Calls] /\ OthersStay(c) /\ calls'[c] = Idle
      BY <1>5, <2>1, CallsBecome DEF OthersStay
    <2>3. TypeOK'
      BY <1>2, <1>3, <2>2, TypeStays
    <2>4. RoleOf(c)' /\ FitOf(c)'
      BY <2>2 DEF RoleOf, FitOf, LookedUp, Has, Busy
    <2>5. Roles' /\ CallsFit'
      BY <2>2, <2>4, OneCall
    <2>6. calls'[Script] = calls[Script]
      BY <1>5, <2>2, Constants DEF OthersStay
    <2> QED
      BY <1>2, <2>3, <2>5, <2>6, StoresStay, RunStays
  <1> QED
    BY <1>4, <1>5 DEF Compute

(* The write, if it arrives, is of the key's own result. A job's is not of *)
(* the script's version, so that it may come between ClearScan and         *)
(* ClearDelete.                                                            *)
LEMMA SetRedisKeeps ==
  ASSUME IInv, NEW c \in Callers, SetRedis(c)
  PROVE  IInv'
  <1> USE DEF IInv
  <1>1. calls[c] \in Answering /\ Busy(c) /\ LookedUp(c) /\ Has(c) /\ calls[c].at = "store"
    BY Kinds DEF SetRedis, At, Busy, LookedUp, Has
  <1>2. UNCHANGED <<feedback, memory, version, run, forgot, asked, restarts>>
    BY DEF SetRedis
  <1>3. PICK key \in Keys, result \in Results : key = calls[c].key /\ result = calls[c].result
    BY <1>1 DEF Answering
  <1> DEFINE written == [k \in DOMAIN redis \cup {key} |-> IF k = key THEN result ELSE redis[k]]
  <1>4. Fits(key, result) /\ Fits(key, calls[c])
    BY <1>1, <1>3 DEF CallsFit, FitOf
  <1>5. redis' = written \/ redis' = redis
    BY <1>3 DEF SetRedis
  <1>6. Answer(c, "served", result) \/ Go(c, "keep")
    BY <1>3 DEF SetRedis, Return
  <1>7. redisUp' \in BOOLEAN /\ outages' \in 0..MaxOutages
    <2>1. \/ redisUp' = redisUp /\ outages' = outages
          \/ redisUp' = FALSE /\ outages < MaxOutages /\ outages' = outages + 1
      BY DEF SetRedis
    <2>2. redisUp \in BOOLEAN /\ outages \in 0..MaxOutages /\ MaxOutages \in Nat
      BY TypeInParts, CacheAssumption DEF RestTyped
    <2>3. redisUp' \in BOOLEAN
      BY <2>1, <2>2
    <2>4. outages' \in 0..MaxOutages
      BY <2>1, <2>2
    <2> QED
      BY <2>3, <2>4
  <1>8. /\ calls' \in [Callers -> Calls] /\ OthersStay(c)
        /\ calls'[c] \in Answering /\ calls'[c].at \in {"served", "keep"}
        /\ calls'[c].ask = calls[c].ask /\ calls'[c].version = calls[c].version
        /\ calls'[c].examples = calls[c].examples /\ calls'[c].key = calls[c].key
        /\ calls'[c].result = result
    <2>1. CASE Answer(c, "served", result)
      BY <1>1, <2>1, CallsAnswer DEF OthersStay
    <2>2. CASE Go(c, "keep")
      BY <1>1, <1>3, <2>2, CallsKeep DEF OthersStay
    <2> QED
      BY <1>6, <2>1, <2>2
  <1>9. TypeOK'
    <2>1. RestTyped'
      BY <1>2, <1>7, TypeInParts DEF RestTyped
    <2>2. MemoryTyped'
      BY <1>2, TypeInParts DEF MemoryTyped
    <2>3. RedisTyped'
      BY <1>5, TypeInParts DEF RedisTyped
    <2> QED
      BY <1>2, <1>8, <2>1, <2>2, <2>3, TypeStays
  <1>10. Roles' /\ CallsFit'
    BY <1>1, <1>3, <1>4, <1>8, OneLookup
  <1>11. RedisFits'
    BY <1>4, <1>5 DEF RedisFits, Fits
  <1>12. MemoryFits'
    BY <1>2 DEF MemoryFits
  <1>13. result.version = calls[c].version
    BY <1>4, FitsAgree
  <1>14. calls[c].version = EvalVersion <=> c = Script
    BY <1>1 DEF Roles, RoleOf
  <1>15. c = Script => result.run = run
    BY <1>1, <1>3 DEF RunInCall, At, Busy
  <1>16. c # Script => calls'[Script] = calls[Script]
    BY <1>8, Constants DEF OthersStay
  <1>17. RunInRedis'
    <2> SUFFICES ASSUME forgot, NEW k \in DOMAIN redis', redis'[k].version = EvalVersion
                 PROVE  redis'[k].run = run
      BY <1>2 DEF RunInRedis, OfScript
    <2>1. CASE redis' = written /\ k = key
      BY <1>13, <1>14, <1>15, <2>1
    <2>2. CASE k \in DOMAIN redis /\ redis'[k] = redis[k]
      BY <2>2 DEF RunInRedis, OfScript
    <2> QED
      BY <1>5, <2>1, <2>2
  <1>18. Listed'
    <2> SUFFICES ASSUME At(Script, "delete")'
                 PROVE  ~forgot /\ \A k \in DOMAIN redis' :
                           redis'[k].version = EvalVersion => k \in calls'[Script].keys
      BY <1>2 DEF Listed, OfScript
    <2>1. c # Script /\ calls'[Script] = calls[Script] /\ At(Script, "delete")
      BY <1>8, <1>16 DEF At
    <2>2. result.version # EvalVersion
      BY <1>13, <1>14, <2>1
    <2>3. \A k \in DOMAIN redis' : redis'[k].version = EvalVersion =>
             k \in DOMAIN redis /\ redis'[k] = redis[k]
      BY <1>5, <2>2
    <2> QED
      BY <2>1, <2>3 DEF Listed, OfScript
  <1>19. RunInMemory' /\ RunInCall'
    <2>1. CASE c = Script
      <3>1. Cleared
        BY <1>1, <2>1 DEF Cleared, At, Busy
      <3>2. RunInMemory'
        BY <1>2, <3>1 DEF RunInMemory
      <3>3. RunInCall'
        BY <1>2, <1>8, <1>15, <2>1 DEF RunInCall, FreshlyAssessed, At
      <3> QED
        BY <3>2, <3>3
    <2>2. CASE c # Script
      <3>1. RunInMemory'
        BY <1>2, <1>16, <2>2 DEF RunInMemory, Cleared, Busy, At
      <3> QED
        BY <1>2, <1>16, <2>2, <3>1, RunStays
    <2> QED
      BY <2>1, <2>2
  <1> QED
    BY <1>9, <1>10, <1>11, <1>12, <1>17, <1>18, <1>19

(* The dictionary takes the result that Redis did not.                     *)
LEMMA KeepKeeps ==
  ASSUME IInv, NEW c \in Callers, Keep(c)
  PROVE  IInv'
  <1> USE DEF IInv
  <1>1. calls[c] \in Answering /\ Busy(c) /\ LookedUp(c) /\ Has(c) /\ calls[c].at = "keep"
    BY Kinds DEF Keep, At, Busy, LookedUp, Has
  <1>2. UNCHANGED <<feedback, redisUp, redis, version, run, forgot, asked, outages, restarts>>
    BY DEF Keep, Uncounted
  <1>3. PICK key \in Keys, result \in Results : key = calls[c].key /\ result = calls[c].result
    BY <1>1 DEF Answering
  <1>4. PICK p \in Processes : p = ProcessOf(c)
    BY Constants
  <1> DEFINE entry == [key |-> key, result |-> result]
             put == Append(Without(memory[p], key), entry)
             new == Evicted(put)
  <1>5. memory[p] \in Seq(Entries) /\ Distinct(memory[p]) /\ Len(memory[p]) <= MaxSize
        /\ Len(memory[p]) \in Nat /\ MaxSize \in Nat
    BY TypeInParts, CacheAssumption, LenProperties DEF MemoryTyped
  <1>6. entry \in Entries /\ entry.key = key /\ entry.result = result
    BY DEF Entries
  <1>7. memory' = [memory EXCEPT ![p] = new] /\ Answer(c, "served", result)
    BY <1>3, <1>4 DEF Keep, Return
  <1> HIDE DEF entry
  <1>8. /\ put \in Seq(Entries) /\ Distinct(put) /\ Made(put, memory[p], entry)
        /\ Len(put) <= MaxSize + 1
    <2>1. /\ put \in Seq(Entries) /\ Distinct(put) /\ Made(put, memory[p], entry)
          /\ Len(put) = IF IsKept(memory[p], key) THEN Len(memory[p]) ELSE Len(memory[p]) + 1
      BY <1>5, <1>6, PutLast
    <2> HIDE DEF put
    <2> QED
      BY <1>5, <2>1
  <1> HIDE DEF put
  <1>9. /\ new \in Seq(Entries) /\ Distinct(new) /\ Len(new) <= MaxSize
        /\ \A i \in DOMAIN new : \E k \in DOMAIN put : new[i] = put[k]
    BY <1>8, EvictedFits
  <1> HIDE DEF new
  <1>10. Made(new, memory[p], entry)
    BY <1>8, <1>9 DEF Made
  <1>11. Fits(key, result)
    BY <1>1, <1>3 DEF CallsFit, FitOf
  <1>12. c = Script => Cleared /\ result.run = run
    BY <1>1, <1>3 DEF RunInCall, Cleared, At, Busy
  <1>13. /\ calls' \in [Callers -> Calls] /\ OthersStay(c)
         /\ calls'[c] \in Answering /\ calls'[c].at = "served"
         /\ calls'[c].ask = calls[c].ask /\ calls'[c].version = calls[c].version
         /\ calls'[c].examples = calls[c].examples /\ calls'[c].key = calls[c].key
         /\ calls'[c].result = result
    BY <1>1, <1>7, CallsAnswer DEF OthersStay
  <1>14. c # Script => calls'[Script] = calls[Script]
    BY <1>13, Constants DEF OthersStay
  <1>15. MemoryTyped' /\ MemoryFits' /\ RunInMemory'
    BY <1>2, <1>4, <1>6, <1>7, <1>9, <1>10, <1>11, <1>12, <1>14, MemoryPut
  <1>16. TypeOK'
    <2>1. RestTyped'
      BY <1>2, TypeInParts DEF RestTyped
    <2>2. RedisTyped'
      BY <1>2, TypeInParts DEF RedisTyped
    <2> QED
      BY <1>2, <1>13, <1>15, <2>1, <2>2, TypeStays
  <1>17. Roles' /\ CallsFit'
    BY <1>1, <1>3, <1>11, <1>13, OneLookup
  <1>18. RedisFits' /\ RunInRedis' /\ Listed'
    BY <1>2, <1>13, <1>14, RedisStays DEF At
  <1>19. RunInCall'
    <2>1. CASE c = Script
      BY <1>2, <1>12, <1>13, <2>1 DEF RunInCall, FreshlyAssessed, At
    <2> QED
      BY <1>2, <1>14, <2>1, RunStays
  <1> QED
    BY <1>15, <1>16, <1>17, <1>18, <1>19

--------------------------------------------------------------------------------

(* The script's call while it clears.                                      *)
LEMMA ScriptClears ==
  ASSUME IInv, NEW call \in Clearing, calls' = [calls EXCEPT ![Script] = call]
  PROVE  /\ calls' \in [Callers -> Calls] /\ calls'[Script] = call
         /\ Roles' /\ CallsFit' /\ RunInCall'
  <1> USE DEF IInv
  <1>1. call \in Calls
    BY DEF Calls
  <1>2. calls' \in [Callers -> Calls] /\ calls'[Script] = call /\ OthersStay(Script)
    BY <1>1, CallsBecome, Constants DEF OthersStay
  <1>3. /\ calls'[Script] \notin Learning /\ calls'[Script] \notin Looking
        /\ calls'[Script] \notin Answering
        /\ calls'[Script].at \notin {"store", "keep", "served"}
    BY <1>2, KindsAreDisjoint
  <1>4. RoleOf(Script)' /\ FitOf(Script)'
    BY <1>3 DEF RoleOf, FitOf, LookedUp, Has
  <1>5. Roles' /\ CallsFit'
    BY <1>2, <1>4, Constants, OneCall
  <1>6. RunInCall'
    BY <1>3 DEF RunInCall, FreshlyAssessed, At
  <1> QED
    BY <1>2, <1>5, <1>6

(* A run begins: what it lists is all there is in Redis of the runs        *)
(* before.                                                                 *)
LEMMA ClearScanKeeps ==
  ASSUME IInv, ClearScan
  PROVE  IInv'
  <1> USE DEF IInv
  <1> DEFINE call == IF redisUp /\ DOMAIN redis # {}
                     THEN [at |-> "delete", keys |-> DOMAIN redis] ELSE [at |-> "forget"]
  <1>1. /\ run < MaxRuns /\ run' = run + 1 /\ forgot' = (redisUp /\ DOMAIN redis = {})
        /\ calls' = [calls EXCEPT ![Script] = call]
        /\ UNCHANGED <<feedback, redisUp, redis, memory, version, asked, outages, restarts>>
    BY DEF ClearScan
  <1>2. call \in Clearing
    BY TypeInParts DEF Clearing, RedisTyped
  <1>3. /\ call.at \in {"delete", "forget"}
        /\ call.at = "delete" => redisUp /\ DOMAIN redis # {} /\ call.keys = DOMAIN redis
    OBVIOUS
  <1> HIDE DEF call
  <1>4. /\ calls' \in [Callers -> Calls] /\ calls'[Script] = call
        /\ Roles' /\ CallsFit' /\ RunInCall'
    BY <1>1, <1>2, ScriptClears
  <1>5. TypeOK'
    <2>1. RestTyped'
      BY <1>1, TypeInParts, CacheAssumption DEF RestTyped
    <2>2. RedisTyped' /\ MemoryTyped'
      BY <1>1, TypeInParts DEF RedisTyped, MemoryTyped
    <2> QED
      BY <1>1, <1>4, <2>1, <2>2, TypeStays
  <1>6. RedisFits' /\ MemoryFits'
    BY <1>1 DEF RedisFits, MemoryFits
  <1>7. RunInMemory'
    BY <1>3, <1>4 DEF RunInMemory, Cleared, Busy, At
  <1>8. RunInRedis'
    BY <1>1 DEF RunInRedis
  <1>9. Listed'
    BY <1>1, <1>3, <1>4 DEF Listed, At
  <1> QED
    BY <1>4, <1>5, <1>6, <1>7, <1>8, <1>9

(* A part of what was in Redis.                                            *)
LEMMA RestrictFits ==
  ASSUME RedisTyped, RedisFits, NEW gone, redis' = Restrict(redis, DOMAIN redis \ gone)
  PROVE  /\ RedisTyped' /\ RedisFits' /\ DOMAIN redis' = DOMAIN redis \ gone
         /\ \A k \in DOMAIN redis' : redis'[k] = redis[k]
  <1>1. redis' = [k \in DOMAIN redis \ gone |-> redis[k]]
    BY DEF Restrict
  <1>2. RedisTyped'
    BY <1>1 DEF RedisTyped
  <1>3. RedisFits'
    BY <1>1 DEF RedisFits, Fits
  <1> QED
    BY <1>1, <1>2, <1>3

(* All that was listed goes, or Redis is passed over and forgot says so.   *)
LEMMA ClearDeleteKeeps ==
  ASSUME IInv, ClearDelete
  PROVE  IInv'
  <1> USE DEF IInv
  <1>1. /\ At(Script, "delete") /\ forgot' = redisUp
        /\ calls' = [calls EXCEPT ![Script] = [at |-> "forget"]]
        /\ redisUp => redis' = Restrict(redis, DOMAIN redis \ calls[Script].keys)
        /\ ~redisUp => redis' = redis
        /\ UNCHANGED <<feedback, redisUp, memory, version, run, asked, outages, restarts>>
    BY DEF ClearDelete, Uncounted
  <1>2. redisUp \in BOOLEAN
    BY TypeInParts DEF RestTyped
  <1>3. [at |-> "forget"] \in Clearing
    BY DEF Clearing
  <1>4. /\ calls' \in [Callers -> Calls] /\ calls'[Script].at = "forget"
        /\ Roles' /\ CallsFit' /\ RunInCall'
    <2>1. /\ calls' \in [Callers -> Calls] /\ calls'[Script] = [at |-> "forget"]
          /\ Roles' /\ CallsFit' /\ RunInCall'
      BY <1>1, <1>3, ScriptClears
    <2> QED
      BY <2>1
  <1>5. RedisTyped' /\ RedisFits' /\ RunInRedis'
    <2>1. CASE redisUp
      <3>1. /\ RedisTyped' /\ RedisFits' /\ DOMAIN redis' = DOMAIN redis \ calls[Script].keys
            /\ \A k \in DOMAIN redis' : redis'[k] = redis[k]
        BY <1>1, <2>1, TypeInParts, RestrictFits
      <3>2. \A k \in DOMAIN redis : redis[k].version = EvalVersion => k \in calls[Script].keys
        BY <1>1 DEF Listed, OfScript
      <3>3. RunInRedis'
        BY <3>1, <3>2 DEF RunInRedis, OfScript
      <3> QED
        BY <3>1, <3>3
    <2>2. CASE ~redisUp
      <3>1. RedisTyped' /\ RedisFits'
        BY <1>1, <2>2, TypeInParts DEF RedisTyped, RedisFits
      <3>2. RunInRedis'
        BY <1>1, <2>2 DEF RunInRedis
      <3> QED
        BY <3>1, <3>2
    <2> QED
      BY <2>1, <2>2
  <1>6. TypeOK'
    <2>1. RestTyped'
      BY <1>1, <1>2, TypeInParts DEF RestTyped
    <2>2. MemoryTyped'
      BY <1>1, TypeInParts DEF MemoryTyped
    <2> QED
      BY <1>1, <1>4, <1>5, <2>1, <2>2, TypeStays
  <1>7. MemoryFits'
    BY <1>1 DEF MemoryFits
  <1>8. RunInMemory' /\ Listed'
    BY <1>4 DEF RunInMemory, Cleared, Busy, At, Listed
  <1> QED
    BY <1>4, <1>5, <1>6, <1>7, <1>8

(* An emptied dictionary.                                                  *)
LEMMA ForgetFits ==
  ASSUME IInv, NEW p \in Processes, memory' = [memory EXCEPT ![p] = <<>>]
  PROVE  /\ MemoryTyped' /\ MemoryFits' /\ memory'[p] = <<>>
         /\ \A q \in Processes : q # p => memory'[q] = memory[q]
  <1> USE DEF IInv
  <1>1. /\ memory \in [Processes -> Seq(Entries)]
        /\ \A q \in Processes : Len(memory[q]) <= MaxSize /\ Distinct(memory[q])
    BY TypeInParts DEF MemoryTyped
  <1>2. /\ <<>> \in Seq(Entries) /\ Len(<<>>) <= MaxSize /\ Distinct(<<>>)
    BY CacheAssumption DEF Distinct
  <1>3. /\ memory' \in [Processes -> Seq(Entries)] /\ memory'[p] = <<>>
        /\ \A q \in Processes : q # p => memory'[q] = memory[q]
    BY <1>1, <1>2
  <1>4. ASSUME NEW q \in Processes PROVE Len(memory'[q]) <= MaxSize /\ Distinct(memory'[q])
    BY <1>1, <1>2, <1>3
  <1>5. MemoryTyped'
    BY <1>3, <1>4 DEF MemoryTyped, Distinct
  <1>6. ASSUME NEW q \in Processes, NEW i \in DOMAIN memory'[q]
        PROVE  Fits(memory'[q][i].key, memory'[q][i].result)
    <2>1. q # p
      BY <1>3
    <2> QED
      BY <1>3, <2>1 DEF MemoryFits
  <1>7. MemoryFits'
    BY <1>6 DEF MemoryFits, Fits
  <1> QED
    BY <1>3, <1>5, <1>7

(* The dictionary of the script's process is empty, the server's is not    *)
(* touched.                                                                *)
LEMMA ClearMemoryKeeps ==
  ASSUME IInv, ClearMemory
  PROVE  IInv'
  <1> USE DEF IInv
  <1>1. /\ memory' = [memory EXCEPT !["evaluation"] = <<>>]
        /\ calls' = [calls EXCEPT ![Script] = [at |-> "cleared"]]
        /\ UNCHANGED <<feedback, redisUp, redis, version, run, forgot, asked, outages, restarts>>
    BY DEF ClearMemory, Uncounted
  <1>2. [at |-> "cleared"] \in Clearing
    BY DEF Clearing
  <1>3. /\ calls' \in [Callers -> Calls] /\ calls'[Script].at = "cleared"
        /\ Roles' /\ CallsFit' /\ RunInCall'
    <2>1. /\ calls' \in [Callers -> Calls] /\ calls'[Script] = [at |-> "cleared"]
          /\ Roles' /\ CallsFit' /\ RunInCall'
      BY <1>1, <1>2, ScriptClears
    <2> QED
      BY <2>1
  <1>4. memory \in [Processes -> Seq(Entries)]
    BY TypeInParts DEF MemoryTyped
  <1>5. MemoryTyped' /\ MemoryFits' /\ memory'["evaluation"] = <<>>
    BY <1>1, <1>4, ForgetFits DEF Processes
  <1>6. TypeOK'
    <2>1. RestTyped'
      BY <1>1, TypeInParts DEF RestTyped
    <2>2. RedisTyped'
      BY <1>1, TypeInParts DEF RedisTyped
    <2> QED
      BY <1>1, <1>3, <1>5, <2>1, <2>2, TypeStays
  <1>7. RunInMemory'
    BY <1>5 DEF RunInMemory
  <1>8. RedisFits' /\ RunInRedis' /\ Listed'
    BY <1>1, <1>3, RedisStays DEF At
  <1> QED
    BY <1>3, <1>5, <1>6, <1>7, <1>8

--------------------------------------------------------------------------------

(* An outage loses nothing.                                                *)
LEMMA GoDownKeeps ==
  ASSUME IInv, GoDown
  PROVE  IInv'
  <1> USE DEF IInv
  <1>1. /\ redisUp' = FALSE /\ outages < MaxOutages /\ outages' = outages + 1
        /\ UNCHANGED <<feedback, redis, memory, version, calls, run, forgot, asked, restarts>>
    BY DEF GoDown
  <1>2. TypeOK'
    <2>1. RestTyped'
      <3>1. redisUp' \in BOOLEAN
        BY <1>1
      <3>2. outages' \in 0..MaxOutages
        BY <1>1, TypeInParts, CacheAssumption DEF RestTyped
      <3> QED
        BY <1>1, <3>1, <3>2, TypeInParts DEF RestTyped
    <2>2. RedisTyped' /\ MemoryTyped' /\ calls' \in [Callers -> Calls]
      BY <1>1, TypeInParts DEF RedisTyped, MemoryTyped
    <2> QED
      BY <1>1, <2>1, <2>2, TypeStays
  <1>3. Roles' /\ CallsFit'
    BY <1>1 DEF Roles, RoleOf, CallsFit, FitOf, LookedUp, Has, Busy, Fits
  <1>4. RedisFits' /\ MemoryFits' /\ RunInMemory' /\ RunInRedis' /\ Listed' /\ RunInCall'
    BY <1>1, StoresStay, RunStays
  <1> QED
    BY <1>2, <1>3, <1>4

(* Redis comes back, or loses an entry: no more than what there was.       *)
LEMMA FewerInRedis ==
  ASSUME IInv, RestTyped', RedisTyped',
         UNCHANGED <<feedback, memory, calls, run, forgot>>,
         DOMAIN redis' \subseteq DOMAIN redis,
         \A k \in DOMAIN redis' : redis'[k] = redis[k]
  PROVE  IInv'
  <1> USE DEF IInv
  <1>1. TypeOK'
    <2>1. MemoryTyped' /\ calls' \in [Callers -> Calls]
      BY TypeInParts DEF MemoryTyped
    <2> QED
      BY <2>1, TypeStays
  <1>2. Roles' /\ CallsFit'
    BY DEF Roles, RoleOf, CallsFit, FitOf, LookedUp, Has, Busy, Fits
  <1>3. RedisFits'
    BY DEF RedisFits, Fits
  <1>4. MemoryFits' /\ RunInMemory'
    BY DEF MemoryFits, RunInMemory, Cleared, Busy, At, Fits
  <1>5. RunInRedis' /\ Listed'
    BY DEF RunInRedis, Listed, At, OfScript
  <1>6. RunInCall'
    BY RunStays
  <1> QED
    BY <1>1, <1>2, <1>3, <1>4, <1>5, <1>6

(* Redis comes back with all of its data, or with none.                    *)
LEMMA ComeUpKeeps ==
  ASSUME IInv, ComeUp
  PROVE  IInv'
  <1> USE DEF IInv
  <1>1. /\ redisUp' = TRUE /\ redis' \in {redis, <<>>}
        /\ UNCHANGED <<feedback, memory, version, calls, run, forgot, asked, outages, restarts>>
    BY DEF ComeUp, Uncounted
  <1>2. RestTyped'
    BY <1>1, TypeInParts DEF RestTyped
  <1>3. /\ RedisTyped' /\ DOMAIN redis' \subseteq DOMAIN redis
        /\ \A k \in DOMAIN redis' : redis'[k] = redis[k]
    <2>1. CASE redis' = redis
      BY <2>1, TypeInParts DEF RedisTyped
    <2>2. CASE redis' = <<>>
      <3>1. DOMAIN redis' = {}
        BY <2>2
      <3>2. redis' = [k \in {} |-> redis[k]]
        BY <2>2
      <3> QED
        BY <3>1, <3>2 DEF RedisTyped
    <2> QED
      BY <1>1, <2>1, <2>2
  <1> QED
    BY <1>1, <1>2, <1>3, FewerInRedis

(* One entry goes.                                                         *)
LEMMA ExpireKeeps ==
  ASSUME IInv, Expire
  PROVE  IInv'
  <1> USE DEF IInv
  <1>1. PICK key \in DOMAIN redis : redis' = Restrict(redis, DOMAIN redis \ {key})
    BY DEF Expire
  <1>2. UNCHANGED <<feedback, redisUp, memory, version, calls, run, forgot, asked, outages, restarts>>
    BY DEF Expire, Uncounted
  <1>3. RestTyped'
    BY <1>2, TypeInParts DEF RestTyped
  <1>4. /\ RedisTyped' /\ DOMAIN redis' = DOMAIN redis \ {key}
        /\ \A k \in DOMAIN redis' : redis'[k] = redis[k]
    BY <1>1, TypeInParts, RestrictFits
  <1> QED
    BY <1>2, <1>3, <1>4, FewerInRedis

(* Of the process that ends no call and no entry is left, of the other     *)
(* all.                                                                    *)
LEMMA RestartKeeps ==
  ASSUME IInv, NEW p \in Processes, Restart(p)
  PROVE  IInv'
  <1> USE DEF IInv
  <1>1. /\ restarts < MaxRestarts /\ restarts' = restarts + 1
        /\ memory' = [memory EXCEPT ![p] = <<>>]
        /\ calls' = [c \in Callers |-> IF ProcessOf(c) = p THEN Idle ELSE calls[c]]
        /\ UNCHANGED <<feedback, redisUp, redis, run, forgot, asked, outages>>
    BY DEF Restart
  <1>2. version' \in Versions
    BY TypeInParts DEF Restart, RestTyped
  <1>3. /\ MemoryTyped' /\ MemoryFits' /\ memory'[p] = <<>>
        /\ \A q \in Processes : q # p => memory'[q] = memory[q]
    BY <1>1, ForgetFits
  <1>4. \A c \in Callers : calls'[c] = IF ProcessOf(c) = p THEN Idle ELSE calls[c]
    BY <1>1
  <1>5. calls' \in [Callers -> Calls]
    BY <1>1, TypeInParts DEF Calls
  <1>6. TypeOK'
    <2>1. RestTyped'
      BY <1>1, <1>2, TypeInParts, CacheAssumption DEF RestTyped
    <2>2. RedisTyped'
      BY <1>1, TypeInParts DEF RedisTyped
    <2> QED
      BY <1>1, <1>3, <1>5, <2>1, <2>2, TypeStays
  <1>7. Roles' /\ CallsFit'
    <2>1. ASSUME NEW c \in Callers PROVE RoleOf(c)' /\ FitOf(c)'
      <3>1. CASE calls'[c] = Idle
        BY <3>1 DEF RoleOf, FitOf, LookedUp, Has, Busy
      <3>2. CASE calls'[c] = calls[c]
        BY <3>2 DEF Roles, CallsFit, RoleOf, FitOf, LookedUp, Has, Busy, Fits
      <3> QED
        BY <1>4, <3>1, <3>2
    <2> QED
      BY <2>1 DEF Roles, CallsFit
  <1>8. RedisFits' /\ RunInRedis'
    BY <1>1 DEF RedisFits, RunInRedis, OfScript, Fits
  <1>9. Script \in Callers /\ ProcessOf(Script) = "evaluation" /\ "evaluation" \in Processes
    BY Constants
  <1>10. RunInMemory' /\ Listed' /\ RunInCall'
    <2>1. CASE p = "evaluation"
      <3>1. calls'[Script] = Idle
        BY <1>4, <1>9, <2>1
      <3> QED
        BY <3>1 DEF RunInMemory, Cleared, Busy, Listed, At, RunInCall, FreshlyAssessed
    <2>2. CASE p # "evaluation"
      <3>1. calls'[Script] = calls[Script] /\ memory'["evaluation"] = memory["evaluation"]
        BY <1>3, <1>4, <1>9, <2>2
      <3>2. RunInMemory'
        BY <1>1, <3>1 DEF RunInMemory, Cleared, Busy, At
      <3>3. Listed'
        BY <1>1, <3>1 DEF Listed, At, OfScript
      <3> QED
        BY <1>1, <3>1, <3>2, <3>3, RunStays
    <2> QED
      BY <2>1, <2>2
  <1> QED
    BY <1>3, <1>6, <1>7, <1>8, <1>10

(* Reviews touch the database, not the cache.                              *)
LEMMA ReviewKeeps ==
  ASSUME IInv, FeedbackTypeOK', UNCHANGED cache
  PROVE  IInv'
  <1> USE DEF IInv
  <1>1. UNCHANGED <<redisUp, redis, memory, version, calls, run, forgot, asked, outages, restarts>>
    BY DEF cache
  <1>2. TypeOK'
    BY <1>1 DEF TypeOK
  <1>3. Roles' /\ CallsFit'
    BY <1>1 DEF Roles, RoleOf, CallsFit, FitOf, LookedUp, Has, Busy, Fits, Signature, Sorted
  <1>4. RedisFits' /\ MemoryFits' /\ RunInMemory' /\ RunInRedis' /\ Listed' /\ RunInCall'
    BY <1>1, StoresStay, RunStays
  <1> QED
    BY <1>2, <1>3, <1>4

--------------------------------------------------------------------------------

(* The invariant holds before the first request.                           *)
LEMMA InitInvariant == Init => IInv
  <1> SUFFICES ASSUME Init PROVE IInv
    OBVIOUS
  <1> USE DEF Init, FeedbackInit
  <1>1. Init /\ \A c \in Callers : calls[c] = Idle
    OBVIOUS
  <1>2. TypeOK
    <2>1. FeedbackTypeOK
      BY FeedbackAssumption DEF FeedbackTypeOK, Verdicts, Statuses, Notes
    <2>2. RedisTyped
      BY DEF RedisTyped
    <2>3. MemoryTyped
      <3>1. <<>> \in Seq(Entries) /\ Len(<<>>) <= MaxSize /\ Distinct(<<>>)
        BY CacheAssumption DEF Distinct
      <3> QED
        BY <3>1 DEF MemoryTyped
    <2>4. RestTyped
      <3>1. redisUp \in BOOLEAN /\ forgot \in BOOLEAN
        OBVIOUS
      <3>2. version \in Versions /\ run \in 0..MaxRuns
        BY CacheAssumption
      <3>3. asked \in 0..MaxAsked /\ outages \in 0..MaxOutages /\ restarts \in 0..MaxRestarts
        BY CacheAssumption
      <3> QED
        BY <3>1, <3>2, <3>3 DEF RestTyped
    <2>5. calls \in [Callers -> Calls]
      BY DEF Calls
    <2> QED
      BY <2>1, <2>2, <2>3, <2>4, <2>5, TypeInParts
  <1>3. Roles /\ CallsFit
    BY <1>1 DEF Roles, RoleOf, CallsFit, FitOf, LookedUp, Has, Busy
  <1>4. RedisFits /\ MemoryFits
    BY DEF RedisFits, MemoryFits
  <1>5. RunInMemory /\ RunInRedis /\ Listed /\ RunInCall
    BY <1>1, Constants
       DEF RunInMemory, Cleared, RunInRedis, Listed, RunInCall, FreshlyAssessed, At, Busy
  <1> QED
    BY <1>2, <1>3, <1>4, <1>5 DEF IInv

(* And every step keeps it.                                                *)
LEMMA StepInvariant == IInv /\ [Next]_vars => IInv'
  <1> SUFFICES ASSUME IInv, [Next]_vars PROVE IInv'
    OBVIOUS
  <1>1. IInv /\ FeedbackTypeOK
    BY DEF IInv, TypeOK
  <1>2. FeedbackTypeOK'
    <2>1. Review \/ UNCHANGED feedback
      BY DEF Next, vars, Call, QueryConfirmed, QueryRejected, GetRedis, GetMemory, Compute,
             SetRedis, Keep, Evaluate, ClearScan, ClearDelete, ClearMemory, GoDown, ComeUp,
             Expire, Restart
    <2> QED
      BY <1>1, <2>1, FeedbackStep
  <1>3. ASSUME NEW c \in Callers, Call(c) PROVE IInv'
    BY <1>1, <1>3, QueryConfirmedKeeps, QueryRejectedKeeps, GetRedisKeeps, GetMemoryKeeps,
       ComputeKeeps, SetRedisKeeps, KeepKeeps DEF Call
  <1>4. ASSUME Evaluate PROVE IInv'
    BY <1>1, <1>4, EvaluateKeeps
  <1>5. ASSUME ClearScan PROVE IInv'
    BY <1>1, <1>5, ClearScanKeeps
  <1>6. ASSUME ClearDelete PROVE IInv'
    BY <1>1, <1>6, ClearDeleteKeeps
  <1>7. ASSUME ClearMemory PROVE IInv'
    BY <1>1, <1>7, ClearMemoryKeeps
  <1>8. ASSUME Review /\ UNCHANGED cache PROVE IInv'
    BY <1>1, <1>2, <1>8, ReviewKeeps
  <1>9. ASSUME GoDown PROVE IInv'
    BY <1>1, <1>9, GoDownKeeps
  <1>10. ASSUME ComeUp PROVE IInv'
    BY <1>1, <1>10, ComeUpKeeps
  <1>11. ASSUME Expire PROVE IInv'
    BY <1>1, <1>11, ExpireKeeps
  <1>12. ASSUME NEW p \in Processes, Restart(p) PROVE IInv'
    BY <1>1, <1>12, RestartKeeps
  <1>13. ASSUME UNCHANGED vars PROVE IInv'
    BY <1>1, <1>2, <1>13, ReviewKeeps DEF vars
  <1> QED
    BY <1>3, <1>4, <1>5, <1>6, <1>7, <1>8, <1>9, <1>10, <1>11, <1>12, <1>13 DEF Next

(* So it holds always.                                                     *)
THEOREM Invariance == Spec => []IInv
  <1>1. IInv /\ [Next]_vars => IInv'
    BY StepInvariant
  <1> QED
    BY InitInvariant, <1>1, PTL DEF Spec

--------------------------------------------------------------------------------

(* Redis and the dictionaries of both processes (app/cache.py) hold        *)
(* results under keys that _make_key() can make, the dictionary of each at *)
(* most _CACHE_MAX_SIZE of them, with distinct keys; calls and reviews     *)
(* keep their types.                                                       *)
THEOREM TypeCorrect == Spec => []TypeOK
  <1>1. IInv => TypeOK
    BY DEF IInv
  <1> QED
    BY <1>1, Invariance, PTL

(* An answer that assess_impact() gets out of Redis or of a dictionary was *)
(* made for the clause, the policy and the prompt version asked about, and *)
(* under examples of the same clauses, whichever process stored it, and    *)
(* whatever was reviewed, lost, expired, evicted or restarted since.       *)
THEOREM ServedFit == Spec => []ServedFits
  <1>1. IInv => ServedFits
    <2> SUFFICES ASSUME IInv, NEW c \in Callers, At(c, "served")
                 PROVE  /\ calls[c].result.ask = calls[c].ask
                        /\ calls[c].result.version = calls[c].version
                        /\ Signature(calls[c].result.examples) = Signature(calls[c].examples)
      BY DEF ServedFits
    <2>1. calls[c] \in Answering /\ Busy(c)
      BY Kinds DEF IInv, At, Busy
    <2>2. Fits(calls[c].key, calls[c]) /\ Fits(calls[c].key, calls[c].result)
      BY <2>1 DEF IInv, CallsFit, FitOf, LookedUp, Has
    <2> QED
      BY <2>2, FitsAgree
  <1> QED
    BY <1>1, Invariance, PTL

(* A run of eval/evaluate.py whose clear_cache() reached Redis is answered *)
(* by nothing that an earlier run made, even though jobs of the server     *)
(* store answers between the listing and the deletion of the keys.         *)
THEOREM EvaluatedAfresh == Spec => []FreshlyAssessed
  <1>1. IInv => FreshlyAssessed
    BY DEF IInv, RunInCall
  <1> QED
    BY <1>1, Invariance, PTL
================================================================================
