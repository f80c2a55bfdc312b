---------------------------- MODULE EditRegister ----------------------------
(***************************************************************************)
(* What the document store of one clip promises its callers: a register    *)
(* whose value is the whole lineage of the clip's revisions, replaced by   *)
(* compare-and-set.  A write is applied only on the revision it names; a   *)
(* write whose answer is lasting is never lost again; a power loss may     *)
(* take back the newest of the other writes, those that a retry was told   *)
(* of among them.                                                          *)
(*                                                                         *)
(* An etag is the SHA-256 of a document that names its parent's etag, so   *)
(* it stands for the document and all its ancestors: it is modelled by the *)
(* sequence of the revisions from the first one on, each with its body and *)
(* the server's stamp.  The seed (revision 0) is the empty sequence.       *)
(***************************************************************************)
EXTENDS Integers, Sequences

CONSTANTS Key,   \* idempotency keys
          Body,  \* what a revision says, apart from its number and stamp
          Ahead  \* how far the clock may be ahead of the previous stamp

VARIABLES value,    \* the etag of the current revision
          written,  \* the writes that were applied
          answered, \* the revisions whose writer was told so
          lasting   \* those of them that no power loss takes back

vars == <<value, written, answered, lasting>>

Etag == Seq([body: Body, at: Nat])
Seed == << >>
At(e) == IF e = Seed THEN 0 ELSE e[Len(e)].at
Payload == [expected: Etag, body: Body]
Written == [key: Key, payload: Payload, result: Etag]

\* e is f or an ancestor of f.
Precedes(e, f) == Len(e) <= Len(f) /\ \A i \in 1..Len(e): e[i] = f[i]

Init == value = Seed /\ written = {} /\ answered = {} /\ lasting = {}

Write(k, p, at) ==
    /\ p.expected = value
    /\ value' = Append(value, [body |-> p.body, at |-> at])
    /\ written' = written \union {[key |-> k, payload |-> p, result |-> value']}
    /\ UNCHANGED <<answered, lasting>>

Answer(w) ==
    /\ w \in written
    /\ answered' = answered \union {w.result}
    /\ \/ lasting' = lasting
       \/ Precedes(w.result, value) /\ lasting' = lasting \union {w.result}
    /\ UNCHANGED <<value, written>>

Lose(n) ==
    /\ n \in 0..Len(value)
    /\ \A e \in lasting: Len(e) <= n
    /\ value' = SubSeq(value, 1, n)
    /\ UNCHANGED <<written, answered, lasting>>

Next == \/ \E k \in Key, b \in Body, at \in At(value)+1..At(value)+Ahead:
               Write(k, [expected |-> value, body |-> b], at)
        \/ \E w \in written: Answer(w)
        \/ \E n \in 0..Len(value): Lose(n)

Spec == Init /\ [][Next]_vars
=============================================================================
