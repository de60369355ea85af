------------------------------ MODULE JSONCalls ------------------------------
(***************************************************************************)
(* What ToJSONBytes promises its callers: goroutines call it concurrently, *)
(* and each call, atomically, returns the result of the sequential         *)
(* program of its input run on buffers of its own (JSON's Exec) -- as if   *)
(* no other call existed.  The pooled buffers are invisible here.          *)
(***************************************************************************)
EXTENDS JSON

CONSTANTS Procs,    \* the goroutines calling ToJSONBytes
          Inputs,   \* the byte strings they pass it
          NoInput   \* arg of an idle goroutine

VARIABLES arg,      \* the input of the call in progress, or NoInput
          result    \* the result of each goroutine's latest call

\* Answer for every input, computed once.
Answers == [b \in Inputs |-> Answer(b)]

NoResult == [err |-> "none", text |-> <<>>, rest |-> <<>>]

Init == arg = [p \in Procs |-> NoInput] /\ result = [p \in Procs |-> NoResult]

Call(p) ==
  /\ arg[p] = NoInput
  /\ \E b \in Inputs : arg' = [arg EXCEPT ![p] = b]
  /\ UNCHANGED result

Return(p) ==
  /\ arg[p] # NoInput
  /\ result' = [result EXCEPT ![p] = Answers[arg[p]]]
  /\ arg' = [arg EXCEPT ![p] = NoInput]

Next == \E p \in Procs : Call(p) \/ Return(p)

Spec == Init /\ [][Next]_<<arg, result>>
=============================================================================
