------------------------------- MODULE Feedback -------------------------------
(***************************************************************************)
(* Human review and what is learnt from it: review_impact() of             *)
(* app/api/routes.py, and app/reasoning/feedback.py, which makes examples  *)
(* for later prompts of the newest confirmed and rejected assessments of a *)
(* policy, and a signature of them for the cache of LLM answers.           *)
(*                                                                         *)
(* A review is two steps of its session: it loads the row, and it commits. *)
(* The commit writes the columns in which the session's copy differs from  *)
(* what it loaded, and no others.                                          *)
(***************************************************************************)
EXTENDS Naturals, Sequences, FiniteSets, SequencesExt

CONSTANTS
    Rows,         \* the assessments in the database, numbered in order of creation
    PolicyOf,     \* row -> the policy it is about
    ClauseOf,     \* row -> its cited_text
    ReasoningOf,  \* row -> the LLM's reasoning
    Reviewers,    \* threads that serve POST /impacts/{id}/review
    Reviews,      \* bodies: a review_status and a correction_note
    NoNote,       \* correction_note: null
    Idle,         \* no review
    MaxPositive, MaxNegative,   \* how many examples of each kind
    MaxReviews    \* bound: reviews begun

Statuses == {"pending", "confirmed", "corrected", "rejected"}

Notes == {says.note : says \in Reviews} \cup {NoNote}
Verdicts == [status : Statuses, note : Notes]

ASSUME FeedbackAssumption ==
    /\ Rows \subseteq Nat /\ IsFiniteSet(Rows)
    /\ Reviews \subseteq Verdicts
    /\ MaxPositive \in Nat /\ MaxNegative \in Nat /\ MaxReviews \in Nat

VARIABLES
    verdict,    \* row -> its review_status and reviewer_correction
    reviewing,  \* reviewer -> the review in progress: row, body, what was loaded
    reviews     \* how many reviews were begun

feedback == <<verdict, reviewing, reviews>>

FeedbackTypeOK ==
    /\ verdict \in [Rows -> Verdicts]
    /\ reviewing \in [Reviewers ->
            [row : Rows, says : Reviews, saw : Verdicts] \cup {Idle}]
    /\ reviews \in 0..MaxReviews

FeedbackInit ==
    /\ verdict = [a \in Rows |-> [status |-> "pending", note |-> NoNote]]
    /\ reviewing = [r \in Reviewers |-> Idle]
    /\ reviews = 0

--------------------------------------------------------------------------------

(* The row is loaded by the session.                                       *)
OpenReview(r) ==
    /\ reviewing[r] = Idle /\ reviews < MaxReviews
    /\ \E a \in Rows, says \in Reviews :
        reviewing' = [reviewing EXCEPT ![r] =
            [row |-> a, says |-> says, saw |-> verdict[a]]]
    /\ reviews' = reviews + 1
    /\ UNCHANGED verdict

(* The UPDATE of the commit: of the columns that the handler changed.      *)
Merged(now, review) ==
    [status |-> IF review.says.status = review.saw.status
                THEN now.status ELSE review.says.status,
     note |-> IF review.says.note = review.saw.note
              THEN now.note ELSE review.says.note]

CommitReview(r) ==
    /\ reviewing[r] # Idle
    /\ verdict' = [verdict EXCEPT ![reviewing[r].row] = Merged(@, reviewing[r])]
    /\ reviewing' = [reviewing EXCEPT ![r] = Idle]
    /\ UNCHANGED reviews

Review == \E r \in Reviewers : OpenReview(r) \/ CommitReview(r)

--------------------------------------------------------------------------------

(* get_few_shot_examples(): the newest of a policy's rows with a status.   *)
(* As a list is in the order of the rows, the set of them stands for it.   *)
Newest(policy, status, n) ==
    LET chosen == {a \in Rows : PolicyOf[a] = policy /\ verdict[a].status = status}
    IN  {a \in chosen : Cardinality({b \in chosen : b > a}) < n}

Examples(policy) ==
    [positive |-> Newest(policy, "confirmed", MaxPositive),
     negative |-> Newest(policy, "rejected", MaxNegative)]

(* format_few_shot_prompt(): in this order, clause and reasoning of the    *)
(* positive examples, clauses of the negative ones, each newest first (cut *)
(* to a length that is left out here).                                     *)
NewestFirst(rows) == SetToSortSeq(rows, LAMBDA a, b : a > b)
Prompt(examples) ==
    LET positive == NewestFirst(examples.positive)
        negative == NewestFirst(examples.negative)
    IN  <<[i \in DOMAIN positive |-> <<ClauseOf[positive[i]], ReasoningOf[positive[i]]>>],
          [i \in DOMAIN negative |-> ClauseOf[negative[i]]]>>

Clauses == {ClauseOf[a] : a \in Rows}

(* How often each clause occurs: what sorting a list of them leaves.       *)
Sorted(rows) == [c \in Clauses |-> Cardinality({a \in rows : ClauseOf[a] = c})]

(* few_shot_cache_signature(): of the clauses alone, sorted.               *)
Signature(examples) == <<Sorted(examples.positive), Sorted(examples.negative)>>
================================================================================
