------------------------------ MODULE Attempts ------------------------------
(***************************************************************************)
(* Mutation attempts of one publisher (src/src/registry.cpp): the registry *)
(* remembers what it committed for an attempt, answers the same request    *)
(* again without a second effect, and refuses another one under the same   *)
(* attempt.  The table is bounded and is not persisted, and a refusal is   *)
(* not remembered, not even one that has changed records.                  *)
(***************************************************************************)
EXTENDS Integers, FiniteSets, Sequences, FiniteSetsExt, Functions

CONSTANTS
  Request,
  AttemptOf,    \* request -> its attempt, numbered in the order of the identifiers
  Guarded,      \* the requests of operations that ask the table
  Disputable,   \* those that may be refused after they have changed records
  MaxEntries    \* max_idempotency_entries_per_publisher

ASSUME AttemptAssumption ==
  /\ AttemptOf \in [Request -> Nat] /\ Guarded \subseteq Request
  /\ Disputable \subseteq Guarded /\ MaxEntries \in Nat \ {0}

VARIABLES
  table,       \* attempt -> the request committed for it
  effects,     \* the requests that took effect, in order, as answered (history)
  forgotten    \* attempts committed and no longer in the table (history)

attempts == <<table, effects, forgotten>>

Attempt == {AttemptOf[r] : r \in Request}

AttemptsInit == table = << >> /\ effects = << >> /\ forgotten = {}

\* gc_idempotency: the smallest attempts go, be it the one just committed.
Kept(S) == IF Cardinality(S) <= MaxEntries THEN S ELSE S \ {Min(S)}

\* Mutant of Remember: the table is never cut.
RememberAll(r) ==
  /\ table' = [a \in DOMAIN table \cup {AttemptOf[r]} |-> IF a = AttemptOf[r] THEN r ELSE table[a]]
  /\ UNCHANGED forgotten

\* remember_mutation, by every operation that commits.
Remember(r) ==
  LET all  == DOMAIN table \cup {AttemptOf[r]}
  IN  /\ table' = [a \in Kept(all) |-> IF a = AttemptOf[r] THEN r ELSE table[a]]
      /\ forgotten' = forgotten \cup (all \ Kept(all))

\* Mutant of Known: the table is not asked.
KnownNever(r) == FALSE

Known(r) == r \in Guarded /\ AttemptOf[r] \in DOMAIN table

Effect(r, code) == effects' = Append(effects, [request |-> r, code |-> code])

\* find_mutation comes before authority, content and state are looked at.  What is
\* refused may be refused for nothing, or with an effect: equally strong evidence
\* of another source puts a record into conflict (create_domain, attach_member),
\* and a merge may stop half way.
Execute(r, authorised, code) ==
  \/ /\ Known(r)
     /\ code = IF table[AttemptOf[r]] = r THEN "Idempotent" ELSE "ConflictingReplay"
     /\ UNCHANGED attempts
  \/ ~Known(r) /\ code = "Refused" /\ UNCHANGED attempts
  \/ /\ ~Known(r) /\ authorised /\ r \in Disputable /\ code = "Refused"
     /\ Effect(r, code) /\ UNCHANGED <<table, forgotten>>
  \/ /\ ~Known(r) /\ authorised /\ code = "Committed"
     /\ Effect(r, code) /\ Remember(r)

\* load: a process starts with an empty table.
Forget == /\ forgotten' = forgotten \cup DOMAIN table /\ table' = << >>
          /\ UNCHANGED effects

-----------------------------------------------------------------------------
\* Once a request of an attempt has committed, no request of the attempt has any
\* effect, committed or refused, however often, over whichever connections and
\* with whatever content they arrive, as long as the attempt is not forgotten.
\* The operations that do not ask the table are the exception.  Nothing of the
\* kind holds of a refusal: one that changed records is not remembered, and its
\* retries change them again until the attempt commits.
AtMostOnce ==
  \A i, j \in DOMAIN effects :
    LET first  == effects[i]
        second == effects[j]
    IN  /\ i < j /\ first.code = "Committed"
        /\ first.request \in Guarded /\ second.request \in Guarded
        /\ AttemptOf[first.request] = AttemptOf[second.request]
        => AttemptOf[first.request] \in forgotten
=============================================================================
