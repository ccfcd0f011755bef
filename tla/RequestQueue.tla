----------------------------- MODULE RequestQueue -----------------------------
(***************************************************************************)
(* The queues of requests a scheduler keeps: waiting (a deque under FCFS,  *)
(* a heap under PRIORITY), running and the requests skipped by one pass.   *)
(***************************************************************************)
EXTENDS Naturals, Sequences

\* The requests in a queue.
Elems(s) == {s[i] : i \in DOMAIN s}

\* No request is queued twice.
NoRepeats(s) == \A i, j \in DOMAIN s : s[i] = s[j] => i = j

\* Mutant: a slip in removing an element: it is kept.
WithoutOffByOne(s, r) ==
  IF r \in Elems(s)
  THEN LET i == CHOOSE i \in DOMAIN s : s[i] = r
       IN  SubSeq(s, 1, i - 1) \o SubSeq(s, i, Len(s))
  ELSE s

\* s without the request r (which it holds at most once).
Without(s, r) ==
  IF r \in Elems(s)
  THEN LET i == CHOOSE i \in DOMAIN s : s[i] = r
       IN  SubSeq(s, 1, i - 1) \o SubSeq(s, i + 1, Len(s))
  ELSE s

\* Mutant: a preempted request queued like a new one.
PrependAtBack(s, r) == Append(s, r)

\* prepend_request: to the front of the deque (anywhere in a heap).
Prepend(s, r) == <<r>> \o s

\* s from its last request to its first.
Backwards(s) == [i \in 1 .. Len(s) |-> s[Len(s) + 1 - i]]

\* peek_request / pop_request of the waiting queue may return r: the head,
\* or a request of least rank.
GoesNext(waiting, r, byPriority, rank) ==
  /\ r \in Elems(waiting)
  /\ IF byPriority THEN \A o \in Elems(waiting) : rank[r] <= rank[o]
                   ELSE r = Head(waiting)

\* schedule() preempts r out of running: the last one, or one of greatest
\* rank (the largest (priority, arrival_time)).
IsVictim(running, r, byPriority, rank) ==
  /\ r \in Elems(running)
  /\ IF byPriority THEN \A o \in Elems(running) : rank[o] <= rank[r]
                   ELSE r = running[Len(running)]
=============================================================================
