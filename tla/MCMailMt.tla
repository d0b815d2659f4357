------------------------------- MODULE MCMailMt -------------------------------
\* Small instances of MailMt: a described job d, which may call the main
\* thread, a job u without a description, a second described job d2 and a job s
\* of the session's own thread pool.
EXTENDS MailMt

CONSTANTS d, d2, u, s

MCClass == [j \in Jobs |-> CASE j \in {d, d2} -> "described"
                             [] j = s -> "session"
                             [] OTHER -> "undescribed"]

\* d and u are operations of the same kind.
MCInfo == [j \in Jobs |-> IF j \in {d, u} THEN "fetch" ELSE "other"]

CONSTANT MaxActors

\* The bound of the runs: how many different things go on in one behaviour,
\* counting the jobs submitted, a failure, a cancellation, a call, a wait for a
\* job, the events and their destruction.  None of the steps it holds back is a fair one.
Actors ==
  Cardinality({j \in Jobs : stage[j] # "new"})
    + Cardinality({f \in 1..6 : CASE f = 1 -> failed # {}
                                  [] f = 2 -> cancelled # {}
                                  [] f = 3 -> \E j \in Jobs : callRefs[j] # 0 \/ j \in answered
                                  [] f = 4 -> emitted # {}
                                  [] f = 5 -> waiting # NULL /\ waiting.kind = "job"
                                  [] OTHER -> destroy # "no"})

Bound == Actors' <= MaxActors
=============================================================================
