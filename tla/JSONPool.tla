------------------------------ MODULE JSONPool ------------------------------
(***************************************************************************)
(* Goroutines calling ToJSONBytes at the same time, sharing the ByteBuffer *)
(* pool of src/runtime/bytebufferpool.go.  Each call runs its program      *)
(* (JSON's ToJSONBytes(b).prog) one buffer operation per step, so the      *)
(* steps of different calls interleave in any order.                       *)
(*                                                                         *)
(* bbPool is a sync.Pool: a bag of buffers, since nothing stops the same   *)
(* *ByteBuffer from being Put twice.  Get may return any pooled buffer or  *)
(* call New even when the pool is not empty, and the garbage collector may *)
(* drop pooled buffers at any time.  A buffer is a name in Bufs; content   *)
(* is the bytes it holds.  loc[p][l] is the buffer the goroutine's         *)
(* variable of level l points to -- it keeps pointing there after          *)
(* PutByteBuffer -- and held[p] the buffers it took and has not put back.  *)
(***************************************************************************)
EXTENDS JSON, Bags

CONSTANTS Procs, Inputs, NoInput,
          Bufs,     \* buffer names, enough for every level of every goroutine
          NoBuf,
          MaxCalls, \* bound on the calls each goroutine makes
          MaxLevel  \* buffer levels a program uses at most

VARIABLES pool, content, arg, prog, pc, loc, held, out, result, calls

vars == <<pool, content, arg, prog, pc, loc, held, out, result, calls>>

\* ToJSONBytes of every input, computed once.
Calls == [b \in Inputs |-> ToJSONBytes(b)]

\* The buffer levels a program uses; MaxLevel covers them.
Levels(pr) == {pr[i].lvl : i \in DOMAIN pr} \cup {pr[i].lvl + 1 : i \in {j \in DOMAIN pr : pr[j].op = "cat"}}
ASSUME \A b \in Inputs : Levels(ToJSONBytes(b).prog) \subseteq 1..MaxLevel
Level == 1..MaxLevel

\* The abstract specification, over the same arg and result.
Abs == INSTANCE JSONCalls

Init ==
  /\ pool = EmptyBag
  /\ content = [x \in Bufs |-> <<>>]
  /\ arg = [p \in Procs |-> NoInput]
  /\ prog = [p \in Procs |-> [err |-> "none", prog |-> <<>>, rest |-> <<>>]]
  /\ pc = [p \in Procs |-> 0]
  /\ loc = [p \in Procs |-> [l \in Level |-> NoBuf]]
  /\ held = [p \in Procs |-> {}]
  /\ out = [p \in Procs |-> <<>>]
  /\ result = [p \in Procs |-> Abs!NoResult]
  /\ calls = [p \in Procs |-> 0]

\* Buffers some goroutine can still reach; the others are garbage, and New
\* may hand out their names again.
Reachable == BagToSet(pool) \cup UNION {held[p] \cup Range(loc[p]) : p \in Procs}

\* The instruction goroutine p runs next, and the buffer of its level.
Cur(p) == prog[p].prog[pc[p]]
BufOf(p) == loc[p][Cur(p).lvl]
Running(p) == pc[p] \in DOMAIN prog[p].prog
Advance(p) == pc' = [pc EXCEPT ![p] = @ + 1]

-----------------------------------------------------------------------------
(* The calls. *)

\* A goroutine calls ToJSONBytes(b).
Call(p) ==
  /\ arg[p] = NoInput
  /\ calls[p] < MaxCalls
  /\ calls' = [calls EXCEPT ![p] = @ + 1]
  /\ \E b \in Inputs :
       /\ arg' = [arg EXCEPT ![p] = b]
       /\ prog' = [prog EXCEPT ![p] = Calls[b]]
  /\ pc' = [pc EXCEPT ![p] = 1]
  /\ UNCHANGED <<pool, content, loc, held, out, result>>

\* GetByteBuffer taking buffer x and resetting it.
Take(p, x) ==
  /\ content' = [content EXCEPT ![x] = <<>>]
  /\ loc' = [loc EXCEPT ![p][Cur(p).lvl] = x]
  /\ held' = [held EXCEPT ![p] = @ \cup {x}]
  /\ Advance(p)
  /\ UNCHANGED <<calls, arg, prog, out, result>>

\* bbPool.Get() returns a pooled buffer ...
GetPooled(p) ==
  /\ Running(p) /\ Cur(p).op = "get"
  /\ \E x \in BagToSet(pool) : pool' = pool (-) SetToBag({x}) /\ Take(p, x)

\* Variant: a sync.Pool without New, whose Get returns nil when empty.
GetNewNil(p) ==
  /\ Running(p) /\ Cur(p).op = "get"
  /\ pool = EmptyBag /\ Take(p, NoBuf)
  /\ UNCHANGED pool

\* ... or New's &ByteBuffer{b: make([]byte, 0, 1024)}: a buffer no one
\* can reach.
GetNew(p) ==
  /\ Running(p) /\ Cur(p).op = "get"
  /\ \E x \in Bufs \ Reachable : Take(p, x)
  /\ UNCHANGED pool

\* PutByteBuffer: Reset, then bbPool.Put.
PutBuffer(p) ==
  /\ Running(p) /\ Cur(p).op = "put"
  /\ content' = [content EXCEPT ![BufOf(p)] = <<>>]
  /\ pool' = pool (+) SetToBag({BufOf(p)})
  /\ held' = [held EXCEPT ![p] = @ \ {BufOf(p)}]
  /\ Advance(p)
  /\ UNCHANGED <<calls, arg, prog, loc, out, result>>

\* buf.WriteString / buf.Write / Extend and an encoder writing into it.
Write(p) ==
  /\ Running(p) /\ Cur(p).op = "write"
  /\ content' = [content EXCEPT ![BufOf(p)] = @ \o Cur(p).s]
  /\ Advance(p)
  /\ UNCHANGED <<calls, pool, arg, prog, loc, held, out, result>>

\* buf.Write(vbuf.Bytes()) of the generic tag.
CatBuffer(p) ==
  /\ Running(p) /\ Cur(p).op = "cat"
  /\ content' = [content EXCEPT ![BufOf(p)] = @ \o content[loc[p][Cur(p).lvl + 1]]]
  /\ Advance(p)
  /\ UNCHANGED <<calls, pool, arg, prog, loc, held, out, result>>

\* out := make([]byte, bb.Len()); copy(out, bb.Bytes()).
CopyOut(p) ==
  /\ Running(p) /\ Cur(p).op = "out"
  /\ out' = [out EXCEPT ![p] = content[BufOf(p)]]
  /\ Advance(p)
  /\ UNCHANGED <<calls, pool, content, arg, prog, loc, held, result>>

\* json.Marshal of the copied-out diagnostic key, written with ":".
WriteOutKey(p) ==
  /\ Running(p) /\ Cur(p).op = "writeOut"
  /\ content' = [content EXCEPT ![BufOf(p)] = @ \o Cur(p).s \o JQuote(out[p]) \o Cur(p).t]
  /\ Advance(p)
  /\ UNCHANGED <<calls, pool, arg, prog, loc, held, out, result>>

\* ToJSONBytes returns: the copied text on success, the error and b
\* otherwise.  Its variables die; a buffer a panic left unput is garbage.
Return(p) ==
  /\ arg[p] # NoInput /\ ~Running(p)
  /\ result' = [result EXCEPT ![p] =
                  [err |-> prog[p].err, text |-> IF prog[p].err = "none" THEN out[p] ELSE <<>>,
                   rest |-> prog[p].rest]]
  /\ arg' = [arg EXCEPT ![p] = NoInput]
  /\ pc' = [pc EXCEPT ![p] = 0]
  /\ loc' = [loc EXCEPT ![p] = [l \in Level |-> NoBuf]]
  /\ held' = [held EXCEPT ![p] = {}]
  /\ out' = [out EXCEPT ![p] = <<>>]
  /\ UNCHANGED <<calls, pool, content, prog>>

\* The garbage collector clears a pooled buffer.
GCDrop ==
  /\ \E x \in BagToSet(pool) : pool' = pool (-) SetToBag({x})
  /\ UNCHANGED <<calls, content, arg, prog, pc, loc, held, out, result>>

Step(p) ==
  \/ GetPooled(p) \/ GetNew(p) \/ PutBuffer(p) \/ Write(p) \/ CatBuffer(p)
  \/ CopyOut(p) \/ WriteOutKey(p)

Next == GCDrop \/ \E p \in Procs : Call(p) \/ Step(p) \/ Return(p)

Spec == Init /\ [][Next]_vars

-----------------------------------------------------------------------------
(* Properties. *)

TypeOK ==
  /\ IsABag(pool) /\ BagToSet(pool) \subseteq Bufs
  /\ content \in [Bufs -> Seq(0..255)]
  /\ \A p \in Procs :
       /\ arg[p] \in Inputs \cup {NoInput}
       /\ pc[p] \in 0..Len(prog[p].prog) + 1
       /\ loc[p] \in [Level -> Bufs \cup {NoBuf}]
       /\ held[p] \subseteq Bufs
       /\ result[p].err \in STRING

\* A pooled buffer belongs to one call at a time (spec 5: "items borrowed
\* from the pool have lifetime scoped to one call"): no buffer is held by
\* two goroutines, or held and in the pool, or in the pool twice -- what
\* a second PutByteBuffer of the same buffer, on any path of ToJSONBytes,
\* toJSON or DiagBytes, would cause.
ExclusiveOwnership ==
  /\ \A p, q \in Procs : p # q => held[p] \cap held[q] = {}
  /\ \A p \in Procs : held[p] \cap BagToSet(pool) = {}
  /\ \A x \in BagToSet(pool) : CopiesIn(x, pool) = 1

\* Pooling is invisible (JSONCalls): every ToJSONBytes call, interleaved
\* with any other calls and with the garbage collector, returns exactly
\* what the call returns on buffers of its own -- no call reads bytes
\* another call wrote, or a buffer another call reset.
ImplementsJSONCalls == Abs!Spec

\* ToJSONBytes reports a truncated item as an error it returns, with b
\* (spec 7: short input is the short-input error, and every reader returns
\* its remainder and an error); no call, whatever the bytes, ends in a Go
\* panic -- which toJSON's definite-map loop, reading p[0] of a map whose
\* pairs run out, would cause.
ToJSONReturnsErrors == \A p \in Procs : result[p].err # "panic"
=============================================================================
