--------------------------- MODULE MCAccessControl ---------------------------
(***************************************************************************)
(* Small instances of AccessControl: the clock runs one unit past the end  *)
(* of the longest interval.  Session ids and requests are interchangeable. *)
(***************************************************************************)
EXTENDS AccessControl, TLC

Interchangeable == Permutations(Sids) \cup Permutations(Requests)

\* The VIEW leaves out what no later step and no property tells apart: whether a user is
\* blocked or erased; how long ago a verification or a step-up was that does not count
\* any more; the endpoint of a request that was let in at an earlier time, and when (the
\* properties were checked at that time), unless it is yet to step up; and the copy of a
\* request that will not write it.
Hard(row) == row.status \in HardBlocked
Content(content) ==
    IF content = NoSession THEN content
    ELSE <<content.role, content.status, content.createdAt,
           IF MustVerify(content) THEN 0 ELSE content.verifiedAt,
           IF StepUpDone(content) THEN content.stepUpAt ELSE 0>>
Request(r) ==
    IF pc[r] \in {"handler", "end"} /\ req[r].admitted # now /\ req[r].kind # "stepUp"
    THEN IF req[r].dirty THEN <<req[r].sid, Content(req[r].copy)>> ELSE <<req[r].sid>>
    ELSE IF pc[r] = "resume" /\ Hard(req[r].row) THEN <<req[r].sid, req[r].asked>>
    ELSE IF pc[r] = "idle" THEN <<>>
    ELSE <<req[r].sid, req[r].kind, req[r].asked, req[r].row, req[r].admitted, req[r].dirty,
           Content(req[r].copy)>>
Distinguished ==
    <<now, [u \in Users |-> IF Hard(user[u]) THEN <<user[u].role>> ELSE user[u]],
      [s \in Sids |-> Content(store[s])],
      [s \in Sids |-> IF now - proved[s] <= StepUpWindow THEN proved[s] ELSE 0],
      born, since, pc, [r \in Requests |-> Request(r)]>>
=============================================================================
