---------------------------- MODULE SessionTable ----------------------------
(***************************************************************************)
(* What the indexed AEAD session manager promises to the hardware around   *)
(* it: a table with one atomic entry per slot.  An installation replaces   *)
(* an entry in one step, a request is decided in one step against the      *)
(* entry it names, and a refused request leaves the table alone.           *)
(***************************************************************************)
EXTENDS Integers

CONSTANTS NUM_SESSIONS,  \* slots 0 .. NUM_SESSIONS-1 exist
          SLOT_SPAN,     \* values of the slot field, 2^SLOT_WIDTH
          Modulus,       \* values of a packet counter, 2^64
          MAX_LEN,       \* longest payload, in bytes
          Material,      \* traffic material: session id, keys, nonce prefixes
          Request,       \* the requests that may be submitted
          None           \* no entry, no request, no response

VARIABLES table,  \* slot -> its entry, None where no session is installed
          op,     \* the request being served
          rsp     \* the response decided for it

tableVars == <<table, op, rsp>>

Slot == 0 .. NUM_SESSIONS - 1
Entry == [mat : Material, tx : 0 .. Modulus - 1, rx : 0 .. Modulus - 1]

EntryOf(r) == IF r.slot \in Slot THEN table[r.slot] ELSE None

\* The counter a request is answered with.
AnswerCounter(r, e) == IF r.decrypt THEN r.counter
                       ELSE IF e = None THEN 0 ELSE e.tx

\* A request is granted if its slot holds a session, its length fits, and a
\* packet to open is the next one in order and was sealed under the session.
Granted(r, e) ==
    /\ e # None
    /\ r.len <= MAX_LEN
    /\ r.decrypt => r.counter = e.rx /\ r.packet = e.mat

Refusal(r, c) == [slot |-> r.slot, auth_ok |-> FALSE, error |-> TRUE,
                  counter |-> c, data |-> "zero"]
Answer(r, e) == [slot |-> r.slot, auth_ok |-> TRUE, error |-> FALSE,
                 counter |-> AnswerCounter(r, e), data |-> "released"]

Advanced(r, e) == IF r.decrypt THEN [e EXCEPT !.rx = (@ + 1) % Modulus]
                               ELSE [e EXCEPT !.tx = (@ + 1) % Modulus]

TableInit == /\ table = [s \in Slot |-> None]
             /\ op = None
             /\ rsp = None

\* A new session starts both directions at packet counter zero.
Install(s, m) == /\ op = None
                 /\ table' = [table EXCEPT ![s] = [mat |-> m, tx |-> 0, rx |-> 0]]
                 /\ UNCHANGED <<op, rsp>>

Remove(s) == /\ op = None
             /\ table' = [table EXCEPT ![s] = None]
             /\ UNCHANGED <<op, rsp>>

Submit(r) == /\ op = None
             /\ EntryOf(r) # None
             /\ op' = r
             /\ UNCHANGED <<table, rsp>>

\* A slot with no session is refused as it is submitted.
RefuseAtOnce(r) == /\ op = None
                   /\ EntryOf(r) = None
                   /\ op' = r
                   /\ rsp' = Refusal(r, IF r.decrypt THEN r.counter ELSE 0)
                   /\ UNCHANGED table

Grant == /\ op # None /\ rsp = None
         /\ Granted(op, EntryOf(op))
         /\ table' = [table EXCEPT ![op.slot] = Advanced(op, @)]
         /\ rsp' = Answer(op, EntryOf(op))
         /\ UNCHANGED op

Refuse == /\ op # None /\ rsp = None
          /\ ~Granted(op, EntryOf(op))
          /\ rsp' = Refusal(op, IF op.decrypt THEN op.counter ELSE 0)
          /\ UNCHANGED <<table, op>>

Deliver == /\ rsp # None
           /\ op' = None /\ rsp' = None
           /\ UNCHANGED table

ResetTable == /\ table' = [s \in Slot |-> None]
              /\ op' = None /\ rsp' = None

TableNext == \/ \E s \in Slot : Remove(s) \/ \E m \in Material : Install(s, m)
             \/ \E r \in Request : Submit(r) \/ RefuseAtOnce(r)
             \/ Grant \/ Refuse \/ Deliver \/ ResetTable

TableSpec == TableInit /\ [][TableNext]_tableVars
=============================================================================
