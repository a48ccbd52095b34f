----------------------------- MODULE RequestList ------------------------------
(***************************************************************************)
(* The list of MPI requests of a rank, mpi/requests.cc: three arrays side  *)
(* by side, for the requests, what to call when they complete, and whether *)
(* they may be cancelled.                                                  *)
(***************************************************************************)
EXTENDS Integers, Sequences

\* An empty function object
NoCallback == "none"

EmptyList == [requests |-> <<>>, callbacks |-> <<>>, cancellables |-> <<>>]

add_request(list, request, callback, cancellable) ==
  [requests |-> Append(list.requests, request), callbacks |-> Append(list.callbacks, callback),
   cancellables |-> Append(list.cancellables, cancellable)]

free_request(list, request) == add_request(list, request, NoCallback, TRUE)

\* The array with the last of its first n entries moved to j
MoveLast(array, n, j) == SubSeq([array EXCEPT ![j] = array[n]], 1, n - 1)

Reported(indices) == {indices[i] : i \in DOMAIN indices}

\* Mutant of Removed: indices taken in the order MPI gave them
RemovedAsGiven(array, indices) ==
  LET gone[i \in 0 .. Len(indices)] ==
        IF i = 0 THEN array ELSE MoveLast(gone[i - 1], Len(array) - i + 1, indices[Len(indices) - i + 1])
  IN gone[Len(indices)]

\* The finished requests removed, from the highest index to the lowest
Removed(array, indices) ==
  LET gone[j \in 1 .. Len(array) + 1] ==
        IF j > Len(array) THEN array
        ELSE IF j \in Reported(indices) THEN MoveLast(gone[j + 1], Len(gone[j + 1]), j)
        ELSE gone[j + 1]
  IN gone[1]

\* The callbacks that there are, in order
Callable(callbacks) ==
  LET callable[i \in 0 .. Len(callbacks)] ==
        IF i = 0 THEN <<>>
        ELSE IF callbacks[i] = NoCallback THEN callable[i - 1]
        ELSE Append(callable[i - 1], callbacks[i])
  IN callable[Len(callbacks)]

\* MPI reports the finished requests by their indices, in any order; their
\* callbacks are put aside first and called last, in the order of the report
waitsome(list, indices) ==
  [list |-> [requests |-> Removed(list.requests, indices), callbacks |-> Removed(list.callbacks, indices),
             cancellables |-> Removed(list.cancellables, indices)],
   pending |-> Callable([i \in DOMAIN indices |-> list.callbacks[indices[i]]])]

=============================================================================
