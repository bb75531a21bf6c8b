-------------------- MODULE AeadSessionManagerRefinement --------------------
(***************************************************************************)
(* The session manager implements the table with atomic entries, proved    *)
(* for every number of slots, key length, word size and set of material.   *)
(*                                                                         *)
(* The refinement mapping is TableView.  Under the inductive invariant of  *)
(* AeadSessionManagerProofs the entry it gives a slot is Entry(s), which   *)
(* no longer mentions the RAM cell by cell; Answering says what the        *)
(* request and response registers hold in each state of the machine.       *)
(***************************************************************************)
EXTENDS AeadSessionManagerProofs

InstalledMaterial == \A s \in session_valid : installed[s] \in Material

Answering ==
    /\ state \in {"S_IDLE", "S_CFG_WRITE"} => req = None /\ rsp = None
    /\ state \in Reading \cup Copied => rsp = None
    /\ state = "S_ENGINE_WAIT" => req.len <= MAX_LEN
    /\ state \in Counting => rsp \in Response
    /\ state = "S_RESPONSE" => req \in Request /\ rsp \in Response

RInv == IInv /\ InstalledMaterial /\ Answering

SessionEntry(m, t, r) == [mat |-> m, tx |-> t, rx |-> r]
NewEntry(m) == SessionEntry(m, 0, 0)

Entry(s) ==
    IF Replacing(s) THEN NewEntry(cfg.mat)
    ELSE IF s \in session_valid
         THEN SessionEntry(installed[s], CounterView(s, FALSE), CounterView(s, TRUE))
         ELSE None

\* An entry holds what it was made of.
LEMMA EntryFields ==
    \A m, t, r : /\ SessionEntry(m, t, r).mat = m
                 /\ SessionEntry(m, t, r).tx = t
                 /\ SessionEntry(m, t, r).rx = r
  BY DEF SessionEntry

-----------------------------------------------------------------------------
(* The invariant of the refinement. *)

\* A granted answer is a response.
LEMMA GrantedType ==
    ASSUME NEW r \in Request, NEW c \in Counter
    PROVE  [slot |-> r.slot, auth_ok |-> TRUE, error |-> FALSE, counter |-> c,
            data |-> "released"] \in Response
  BY RequestFields DEF Response

\* Installing is the only way a slot becomes valid.
LEMMA InstalledStep == RInv /\ [Next]_vars => InstalledMaterial'
  <1> SUFFICES ASSUME RInv, [Next]_vars PROVE InstalledMaterial'
    OBVIOUS
  <1> USE DEF RInv, InstalledMaterial
  <1>1. CASE CfgWrite /\ cfg_word_q = WORD_RESERVED
    <2>1. cfg.slot \in Slot /\ cfg.mat \in Material /\ session_valid \subseteq Slot
      BY <1>1 DEF CfgWrite, IInv, Phases, TypeOK
    <2>2. installed' = [installed EXCEPT ![cfg.slot] = cfg.mat]
          /\ session_valid' = session_valid \cup {cfg.slot}
      BY <1>1 DEF CfgWrite
    <2>3. DOMAIN installed = Slot
      BY DEF IInv, TypeOK
    <2> QED
      BY <2>1, <2>2, <2>3
  <1>2. CASE ~(CfgWrite /\ cfg_word_q = WORD_RESERVED)
    <2>1. session_valid' \subseteq session_valid /\ installed' = installed
      BY <1>2 DEF Next, Cfg, CfgImmediate, CfgAccept, CfgWrite, DoneFalls, ReqAccept,
         Serve, ReadIssue, ReadCapture, Check, EngineDone, CountWriteLo, CountWriteHi,
         RspTake, Reset, valid_at_reset, vars, regs, history
    <2> QED
      BY <2>1
  <1> QED
    BY <1>1, <1>2

\* The request and response registers keep to the states of the machine.
LEMMA AnsweringStep == RInv /\ [Next]_vars => Answering'
  <1> SUFFICES ASSUME RInv, [Next]_vars PROVE Answering'
    OBVIOUS
  <1> USE DEF RInv, Answering, Reading, Copied, Counting
  <1>1. ASSUME NEW s \in 0 .. SLOT_SPAN - 1, NEW valid \in BOOLEAN, CfgImmediate(s, valid)
        PROVE  Answering'
    BY <1>1 DEF CfgImmediate
  <1>2. ASSUME NEW s \in 0 .. SLOT_SPAN - 1, NEW m \in Material, CfgAccept(s, m)
        PROVE  Answering'
    BY <1>2 DEF CfgAccept
  <1>3. CASE CfgWrite
    BY <1>3 DEF CfgWrite
  <1>4. CASE DoneFalls
    BY <1>4 DEF DoneFalls
  <1>5. ASSUME NEW r \in Request, ReqAccept(r)
        PROVE  Answering'
    <2>1. (IF r.decrypt THEN r.counter ELSE 0) \in Counter
      BY RequestFields, Values
    <2>2. Refused(r, IF r.decrypt THEN r.counter ELSE 0) \in Response
      BY <2>1, RefusedType
    <2> QED
      BY <1>5, <2>2 DEF ReqAccept
  <1>6. CASE ReadIssue \/ ReadCapture
    BY <1>6 DEF ReadIssue, ReadCapture
  <1>7. CASE Check
    <2>1. req \in Request /\ req.len \in Nat /\ state = "S_CHECK"
      BY <1>7, ServedSession, RequestFields, ManagerAssumption DEF Check, Serving
    <2>2. (IF req.decrypt THEN req.counter ELSE 0) \in Counter
      BY <2>1, RequestFields, Values
    <2>3. Refused(req, IF req.decrypt THEN req.counter ELSE 0) \in Response
      BY <2>1, <2>2, RefusedType
    <2>4. ~CheckFails => req.len <= MAX_LEN
      <3>1. ~CheckFails => ~(req.len > MAX_LEN)
        BY Zenon DEF CheckFails
      <3>2. req.len \in Nat /\ MAX_LEN \in Nat
        BY <2>1, ManagerAssumption
      <3> QED
        BY <3>1, <3>2
    <2> QED
      BY <1>7, <2>1, <2>3, <2>4 DEF Check
  <1>8. CASE EngineDone
    <2>1. req \in Request /\ req.decrypt \in BOOLEAN /\ state = "S_ENGINE_WAIT"
      BY <1>8, ServedSession DEF EngineDone, Serving
    <2>2. operation_counter \in Counter
      BY <2>1, RequestFields, CopyOfSession DEF operation_counter
    <2>3. /\ Refused(req, operation_counter) \in Response
          /\ [slot |-> req.slot, auth_ok |-> TRUE, error |-> FALSE,
              counter |-> operation_counter, data |-> "released"] \in Response
      BY <2>1, <2>2, RefusedType, GrantedType
    <2> QED
      BY <1>8, <2>1, <2>3 DEF EngineDone
  <1>9. CASE CountWriteLo
    BY <1>9 DEF CountWriteLo
  <1>10. CASE CountWriteHi
    <2>1. req \in Request
      BY <1>10, ServedSession DEF CountWriteHi, Serving
    <2> QED
      BY <1>10, <2>1 DEF CountWriteHi
  <1>11. CASE RspTake
    BY <1>11 DEF RspTake
  <1>12. CASE Reset
    BY <1>12 DEF Reset
  <1>13. CASE UNCHANGED vars
    BY <1>13 DEF vars, regs
  <1> QED
    BY <1>1, <1>2, <1>3, <1>4, <1>5, <1>6, <1>7, <1>8, <1>9, <1>10, <1>11, <1>12, <1>13
       DEF Next, Cfg, Serve

\* What the refinement rests on holds of every behaviour.
LEMMA RInductive == Spec => []RInv
  <1>1. Init => InstalledMaterial /\ Answering
    BY DEF Init, InstalledMaterial, Answering, Reading, Copied, Counting
  <1>2. RInv /\ [Next]_vars => InstalledMaterial' /\ Answering'
    BY InstalledStep, AnsweringStep
  <1>3. RInv <=> IInv /\ InstalledMaterial /\ Answering
    BY DEF RInv
  <1> QED
    BY <1>1, <1>2, <1>3, Inductive, PTL DEF Spec
-----------------------------------------------------------------------------
(* The entries of the table. *)

\* Under the invariant TableView is made of the entries.
LEMMA ViewOfTable == RInv => TableView = [s \in Slot |-> Entry(s)]
  <1> SUFFICES ASSUME RInv, NEW s \in Slot
               PROVE  TableView[s] = Entry(s)
    BY DEF TableView
  <1>1. CASE Replacing(s)
    BY <1>1 DEF TableView, Entry, Replacing, NewEntry, SessionEntry
  <1>2. CASE ~Replacing(s) /\ s \in session_valid
    <2>1. WORD_SESSION_ID \in MaterialWord
      BY Layout DEF OperandWord
    <2>2. Cell(s, WORD_SESSION_ID) = <<installed[s], WORD_SESSION_ID>>
      BY <1>2, <2>1 DEF RInv, IInv, StoredSession
    <2>3. StoredMaterial(s) = installed[s]
      BY <2>2 DEF StoredMaterial, Cell
    <2> QED
      BY <1>2, <2>3 DEF TableView, Entry, Replacing, SessionEntry
  <1>3. CASE ~Replacing(s) /\ s \notin session_valid
    BY <1>3 DEF TableView, Entry, Replacing
  <1> QED
    BY <1>1, <1>2, <1>3

\* The same of the next state.
LEMMA ViewOfTableNext == RInv' => TableView' = [s \in Slot |-> Entry(s)']
  <1>1. (RInv => TableView = [s \in Slot |-> Entry(s)])'
    BY ViewOfTable, PTL
  <1> QED
    BY <1>1

\* An entry that is there is an entry, and so not None.
LEMMA EntryIsThere ==
    ASSUME RInv, NEW s \in Slot, Replacing(s) \/ s \in session_valid
    PROVE  Entry(s) # None
  <1>1. NewEntry(cfg.mat) # None \/ ~Replacing(s)
    BY Values, NoneAssumption DEF RInv, IInv, Phases, Replacing, NewEntry,
       SessionEntry
  <1>2. ASSUME ~Replacing(s), s \in session_valid
        PROVE  Entry(s) # None
    <2>1. \A d \in BOOLEAN : StoredCounter(s, d) \in Counter
      <3>1. \A w \in CountWord : Cell(s, w) \in Half
        BY <1>2 DEF RInv, IInv, StoredSession
      <3> QED
        BY <3>1, Layout, JoinHalves DEF StoredCounter, Cell
    <2>2. CounterView(s, FALSE) \in Counter /\ CounterView(s, TRUE) \in Counter
      BY <2>1 DEF CounterView, RInv, IInv, TypeOK
    <2>3. installed[s] \in Material
      BY <1>2 DEF RInv, InstalledMaterial
    <2>4. Entry(s) = SessionEntry(installed[s], CounterView(s, FALSE),
                                  CounterView(s, TRUE))
      BY <1>2 DEF Entry
    <2>5. Entry(s) \in [mat : Material, tx : Counter, rx : Counter]
      <3>1. \A m \in Material, t \in Counter, r \in Counter :
                SessionEntry(m, t, r) \in [mat : Material, tx : Counter, rx : Counter]
        BY DEF SessionEntry
      <3> QED
        BY <2>2, <2>3, <2>4, <3>1, Zenon
    <2> QED
      BY <2>5, NoneAssumption
  <1> QED
    BY <1>1, <1>2 DEF Entry

\* A step that changes no entry and leaves the ports alone is a stuttering step.
LEMMA Stutters ==
    ASSUME RInv, RInv', UNCHANGED <<req, rsp>>, \A s \in Slot : Entry(s)' = Entry(s)
    PROVE  UNCHANGED Table!tableVars
  <1>1. TableView' = TableView
    BY ViewOfTable, ViewOfTableNext
  <1> QED
    BY <1>1 DEF Table!tableVars
\* What the table says of the request being served, up to the engine's answer:
\* its entry holds the latest installation and the stored counters.
LEMMA EntryServed ==
    ASSUME RInv, state \in Copied
    PROVE  /\ Table!EntryOf(req) = Entry(req.slot)
           /\ Entry(req.slot) # None
           /\ Entry(req.slot) = SessionEntry(installed[req.slot],
                                             StoredCounter(req.slot, FALSE),
                                             StoredCounter(req.slot, TRUE))
           /\ Entry(req.slot).mat = installed[req.slot]
           /\ Entry(req.slot).tx = StoredCounter(req.slot, FALSE)
           /\ Entry(req.slot).rx = StoredCounter(req.slot, TRUE)
  <1>1. req.slot \in Slot /\ req.slot \in session_valid /\ ~Replacing(req.slot)
    BY ServedSession DEF RInv, Serving
  <1>2. Table!EntryOf(req) = Entry(req.slot)
    BY <1>1, ViewOfTable DEF Table!EntryOf, Table!Slot, Slot
  <1>3. Entry(req.slot) # None
    BY <1>1, EntryIsThere
  <1>4. /\ CounterView(req.slot, FALSE) = StoredCounter(req.slot, FALSE)
        /\ CounterView(req.slot, TRUE) = StoredCounter(req.slot, TRUE)
    BY DEF CounterView, CountInFlight, Copied
  <1>5. Entry(req.slot) = SessionEntry(installed[req.slot], StoredCounter(req.slot, FALSE),
                                       StoredCounter(req.slot, TRUE))
    BY <1>1, <1>4 DEF Entry
  <1> DEFINE m == installed[req.slot]
             t == StoredCounter(req.slot, FALSE)
             r == StoredCounter(req.slot, TRUE)
  <1> HIDE DEF m, t, r
  <1>6. /\ SessionEntry(m, t, r).mat = m
        /\ SessionEntry(m, t, r).tx = t
        /\ SessionEntry(m, t, r).rx = r
    BY EntryFields
  <1> QED
    BY <1>2, <1>3, <1>5, <1>6 DEF m, t, r

-----------------------------------------------------------------------------
(* The steps. *)

\* The steps between accepting a request and deciding it do not touch the table.
LEMMA QuietStep ==
    ASSUME RInv, RInv', UNCHANGED <<mem, session_valid, installed, req, rsp>>,
           {state, state'} \cap ({"S_CFG_WRITE"} \cup Counting) = {}
    PROVE  UNCHANGED Table!tableVars
  <1>1. ASSUME NEW s \in Slot PROVE Entry(s)' = Entry(s)
    BY DEF Entry, Replacing, CounterView, CountInFlight, StoredCounter, Counting
  <1> QED
    BY <1>1, Stutters

\* Without cfg_valid an entry is removed; past the table nothing is.
LEMMA ImmediateStep ==
    ASSUME RInv, RInv', NEW s \in 0 .. SLOT_SPAN - 1, NEW valid \in BOOLEAN,
           CfgImmediate(s, valid)
    PROVE  [Table!TableNext]_(Table!tableVars)
  <1>1. /\ state = "S_IDLE" /\ state' = "S_IDLE" /\ session_valid' = session_valid \ {s}
        /\ UNCHANGED <<mem, installed, req, rsp>> /\ req = None
    BY DEF CfgImmediate, history, RInv, Answering
  <1>2. CASE s \notin Slot
    <2>1. session_valid' = session_valid
      BY <1>1, <1>2 DEF RInv, IInv, TypeOK
    <2> QED
      BY <1>1, <2>1, QuietStep DEF Counting
  <1>3. CASE s \in Slot
    <2>1. ASSUME NEW t \in Slot
          PROVE  Entry(t)' = IF t = s THEN None ELSE Entry(t)
      BY <1>1 DEF Entry, Replacing, CounterView, CountInFlight, StoredCounter
    <2>2. TableView' = [TableView EXCEPT ![s] = None]
      BY <1>3, <2>1, ViewOfTable, ViewOfTableNext
    <2>3. Table!Remove(s)
      BY <1>1, <2>2 DEF Table!Remove
    <2> QED
      BY <1>3, <2>3 DEF Table!TableNext, Table!Slot, Slot
  <1> QED
    BY <1>2, <1>3

\* Accepting an installation replaces the entry at once.
LEMMA InstallStep ==
    ASSUME RInv, RInv', NEW s \in Slot, NEW m \in Material, CfgAccept(s, m)
    PROVE  [Table!TableNext]_(Table!tableVars)
  <1>1. /\ state = "S_IDLE" /\ state' = "S_CFG_WRITE" /\ cfg'.slot = s /\ cfg'.mat = m
        /\ UNCHANGED <<mem, session_valid, installed, req, rsp>> /\ req = None
    BY DEF CfgAccept, history, RInv, Answering
  <1>2. ASSUME NEW t \in Slot
        PROVE  Entry(t)' = IF t = s THEN NewEntry(m) ELSE Entry(t)
    BY <1>1 DEF Entry, Replacing, CounterView, CountInFlight, StoredCounter
  <1>3. TableView' = [TableView EXCEPT ![s] = NewEntry(m)]
    BY <1>2, ViewOfTable, ViewOfTableNext
  <1>4. Table!Install(s, m)
    BY <1>1, <1>3 DEF Table!Install, NewEntry, SessionEntry
  <1> QED
    BY <1>4 DEF Table!TableNext, Table!Slot, Slot

\* A slot that keeps its words keeps its counters.
LEMMA CountersKept ==
    ASSUME NEW s \in Slot, \A w \in Word : Cell(s, w)' = Cell(s, w)
    PROVE  \A d \in BOOLEAN : StoredCounter(s, d)' = StoredCounter(s, d)
  BY Layout DEF StoredCounter, Cell

\* Writing the words of a block, the last one included, changes no entry.
LEMMA BlockStep ==
    ASSUME RInv, RInv', CfgWrite, NEW c \in Slot, NEW m \in Material, NEW k \in Word,
           cfg.slot = c, cfg.mat = m, cfg_word_q = k
    PROVE  UNCHANGED Table!tableVars
  <1>1. /\ state = "S_CFG_WRITE" /\ UNCHANGED <<req, rsp>>
        /\ Writes(c, k, config_word(m, k))
    BY DEF CfgWrite, Writes
  <1>2. \A t \in Slot, v \in Word :
            Cell(t, v)' = IF t = c /\ v = k THEN config_word(m, k) ELSE Cell(t, v)
    BY <1>1, WriteWord DEF RInv, IInv, TypeOK, Cell
  <1>3. \A t \in Slot : t # c =>
            \A d \in BOOLEAN : StoredCounter(t, d)' = StoredCounter(t, d)
    BY <1>2, CountersKept
  <1>4. CASE k # WORD_RESERVED
    <2>1. state' = state /\ cfg' = cfg /\ session_valid' = session_valid
          /\ installed' = installed
      BY <1>4 DEF CfgWrite, history
    <2>2. ASSUME NEW t \in Slot PROVE Entry(t)' = Entry(t)
      BY <1>1, <1>3, <2>1 DEF Entry, Replacing, CounterView, CountInFlight
    <2> QED
      BY <1>1, <2>2, Stutters
  <1>5. CASE k = WORD_RESERVED
    <2>1. /\ state' = "S_IDLE" /\ session_valid' = session_valid \cup {c}
          /\ installed' = [installed EXCEPT ![c] = m] /\ DOMAIN installed = Slot
      BY <1>5 DEF CfgWrite, RInv, IInv, TypeOK
    <2>2. \A w \in CountWord : Cell(c, w)' = 0
      <3>1. ASSUME NEW w \in CountWord PROVE Cell(c, w) = 0 /\ w # k /\ w \in Word
        <4>1. w \in Word /\ w # WORD_RESERVED /\ w \notin MaterialWord
              /\ w \in Int /\ w < WORD_RESERVED
          BY Layout DEF Word
        <4>2. Cell(c, w) = config_word(m, w)
          BY <1>1, <1>5, <4>1 DEF RInv, IInv, WrittenSoFar
        <4> QED
          BY <1>5, <4>1, <4>2 DEF config_word
      <3> QED
        BY <1>2, <3>1
    <2>3. \A d \in BOOLEAN : StoredCounter(c, d)' = 0
      <3>1. \A d \in BOOLEAN : StoredCounter(c, d)' = Join(0, 0)
        BY <2>2, Layout DEF StoredCounter, Cell
      <3>2. Join(0, 0) = 0
        BY ManagerAssumption, Z3 DEF Join
      <3> QED
        BY <3>1, <3>2
    <2>4. Entry(c)' = Entry(c)
      BY <1>1, <2>1, <2>3 DEF Entry, NewEntry, Replacing, CounterView, CountInFlight
    <2>5. ASSUME NEW t \in Slot, t # c PROVE Entry(t)' = Entry(t)
      BY <1>1, <1>3, <2>1, <2>5 DEF Entry, Replacing, CounterView, CountInFlight
    <2> QED
      BY <1>1, <2>4, <2>5, Stutters
  <1> QED
    BY <1>4, <1>5
\* A request is refused as it is accepted, or submitted.
LEMMA RequestStep ==
    ASSUME RInv, RInv', NEW r \in Request, ReqAccept(r)
    PROVE  [Table!TableNext]_(Table!tableVars)
  <1>1. /\ state = "S_IDLE" /\ state' \in {"S_RESPONSE", "S_READ_ISSUE"}
        /\ UNCHANGED <<mem, session_valid, installed>> /\ req = None /\ req' = r
    BY DEF ReqAccept, history, RInv, Answering
  <1>2. ASSUME NEW t \in Slot PROVE Entry(t)' = Entry(t)
    BY <1>1 DEF Entry, Replacing, CounterView, CountInFlight, StoredCounter
  <1>3. TableView' = TableView
    BY <1>2, ViewOfTable, ViewOfTableNext
  <1>4. CASE r.slot \in Slot /\ r.slot \in session_valid
    <2>1. rsp' = rsp
      BY <1>4 DEF ReqAccept
    <2>2. Table!EntryOf(r) # None
      BY <1>4, ViewOfTable, EntryIsThere DEF Table!EntryOf, Table!Slot, Slot
    <2>3. Table!Submit(r)
      BY <1>1, <1>3, <2>1, <2>2 DEF Table!Submit
    <2> QED
      BY <2>3 DEF Table!TableNext
  <1>5. CASE ~(r.slot \in Slot /\ r.slot \in session_valid)
    <2>1. rsp' = Refused(r, IF r.decrypt THEN r.counter ELSE 0)
      BY <1>5 DEF ReqAccept
    <2>2. Table!EntryOf(r) = None
      BY <1>1, <1>5, ViewOfTable DEF Table!EntryOf, Table!Slot, Slot, Entry, Replacing
    <2>3. Table!RefuseAtOnce(r)
      BY <1>1, <1>3, <2>1, <2>2 DEF Table!RefuseAtOnce, Table!Refusal, Refused
    <2> QED
      BY <2>3 DEF Table!TableNext
  <1> QED
    BY <1>4, <1>5

\* A check that fails refuses what the table would not grant.
LEMMA CheckStep ==
    ASSUME RInv, RInv', Check
    PROVE  [Table!TableNext]_(Table!tableVars)
  <1>1. state = "S_CHECK" /\ UNCHANGED <<mem, session_valid, installed, req>> /\ rsp = None
    BY DEF Check, RInv, Answering, Copied
  <1>2. req \in Request
    BY <1>1, ServedSession DEF RInv, Serving, Copied
  <1>3. CASE ~CheckFails
    <2>1. state' = "S_ENGINE_WAIT" /\ rsp' = rsp
      BY <1>3 DEF Check
    <2> QED
      BY <1>1, <2>1, QuietStep DEF Counting
  <1>4. CASE CheckFails
    <2>1. /\ state' = "S_RESPONSE"
          /\ rsp' = Refused(req, IF req.decrypt THEN req.counter ELSE 0)
      BY <1>4 DEF Check
    <2>2. ASSUME NEW t \in Slot PROVE Entry(t)' = Entry(t)
      BY <1>1, <2>1 DEF Entry, Replacing, CounterView, CountInFlight, StoredCounter
    <2>3. TableView' = TableView
      BY <2>2, ViewOfTable, ViewOfTableNext
    <2>4. ~Table!Granted(req, Entry(req.slot))
      <3>1. CASE req.len > MAX_LEN
        <4>1. req.len \in Nat /\ MAX_LEN \in Nat
          BY <1>2, RequestFields, ManagerAssumption
        <4> QED
          BY <3>1, <4>1 DEF Table!Granted
      <3>2. CASE req.decrypt /\ req.counter # ActiveCounter(TRUE)
        <4>1. Entry(req.slot).rx = StoredCounter(req.slot, TRUE)
          BY <1>1, EntryServed DEF Copied
        <4>2. ActiveCounter(TRUE) = StoredCounter(req.slot, TRUE)
          BY <1>1, CopyOfSession DEF RInv, Copied
        <4> QED
          BY <3>2, <4>1, <4>2, Zenon DEF Table!Granted
      <3> QED
        BY <1>4, <3>1, <3>2, Zenon DEF CheckFails
    <2>5. Table!EntryOf(req) = Entry(req.slot) /\ req # None
      BY <1>1, <1>2, EntryServed, NoneAssumption DEF Copied
    <2>6. Table!Refuse
      BY <1>1, <2>1, <2>3, <2>4, <2>5 DEF Table!Refuse, Table!Refusal, Refused
    <2> QED
      BY <2>6 DEF Table!TableNext
  <1> QED
    BY <1>3, <1>4

\* The engine's success grants the request: it was checked against the entry, and
\* the packet opened under the material of the entry.
LEMMA GrantStep ==
    ASSUME RInv, RInv', EngineDone, engine_auth_ok, NEW s, req.slot = s,
           NEW decrypt \in BOOLEAN, req.decrypt = decrypt
    PROVE  [Table!TableNext]_(Table!tableVars)
  <1>1. /\ state = "S_ENGINE_WAIT" /\ state' = "S_COUNT_WRITE_LO"
        /\ UNCHANGED <<mem, session_valid, installed, req>> /\ rsp = None
        /\ updated_counter_q' = (ActiveCounter(decrypt) + 1) % Modulus
        /\ rsp' = [slot |-> s, auth_ok |-> TRUE, error |-> FALSE,
                   counter |-> operation_counter, data |-> "released"]
    BY DEF EngineDone, RInv, Answering, Copied
  <1>2. req \in Request /\ s \in Slot /\ s \in session_valid /\ req # None
    BY <1>1, ServedSession, NoneAssumption DEF RInv, Serving, Copied
  <1>3. /\ ActiveCounter(FALSE) = StoredCounter(s, FALSE)
        /\ ActiveCounter(TRUE) = StoredCounter(s, TRUE)
        /\ \A w \in MaterialWord : active[w] = <<installed[s], w>>
    BY <1>1, CopyOfSession DEF RInv, Copied
  <1>4. /\ Table!EntryOf(req) = Entry(s) /\ Entry(s) # None
        /\ Entry(s) = SessionEntry(installed[s], StoredCounter(s, FALSE),
                                   StoredCounter(s, TRUE))
        /\ Entry(s).mat = installed[s]
        /\ Entry(s).tx = StoredCounter(s, FALSE) /\ Entry(s).rx = StoredCounter(s, TRUE)
    BY <1>1, EntryServed DEF Copied
  <1>5. Table!Granted(req, Entry(s))
    <2>1. req.len <= MAX_LEN
      BY <1>1 DEF RInv, Answering
    <2>2. decrypt => req.counter = Entry(s).rx
      BY <1>1, <1>3, <1>4 DEF RInv, IInv, InOrder
    <2>3. decrypt => req.packet = Entry(s).mat
      <3>1. WORD_SESSION_ID \in OperandWord(TRUE) /\ WORD_SESSION_ID \in MaterialWord
        BY Layout DEF OperandWord
      <3>2. decrypt => active[WORD_SESSION_ID] = <<req.packet, WORD_SESSION_ID>>
        BY <3>1 DEF engine_auth_ok
      <3>3. active[WORD_SESSION_ID] = <<installed[s], WORD_SESSION_ID>>
        BY <1>3, <3>1
      <3>4. decrypt => req.packet = installed[s]
        BY <3>2, <3>3
      <3> QED
        BY <1>4, <3>4, Zenon
    <2> QED
      BY <1>4, <2>1, <2>2, <2>3 DEF Table!Granted
  <1>6. ASSUME NEW u \in Slot
        PROVE  Entry(u)' = IF u = s THEN Table!Advanced(req, Entry(s)) ELSE Entry(u)
    <2> DEFINE m == installed[s]
               t == StoredCounter(s, FALSE)
               r == StoredCounter(s, TRUE)
    <2>1. Entry(s) = SessionEntry(m, t, r)
      BY <1>4
    <2> HIDE DEF m, t, r
    <2>2. CASE u = s
      <3>1. Entry(s)' = SessionEntry(installed[s], CounterView(s, FALSE)',
                                     CounterView(s, TRUE)')
        BY <1>1, <1>2 DEF Entry, Replacing
      <3>2. /\ CounterView(s, decrypt)' = (StoredCounter(s, decrypt) + 1) % Modulus
            /\ CounterView(s, ~decrypt)' = StoredCounter(s, ~decrypt)
        BY <1>1, <1>3 DEF CounterView, CountInFlight, StoredCounter
      <3>3. CASE decrypt = TRUE
        <4>1. CounterView(s, TRUE)' = (r + 1) % Modulus /\ CounterView(s, FALSE)' = t
          BY <3>2, <3>3 DEF t, r
        <4>2. Table!Advanced(req, SessionEntry(m, t, r)) = SessionEntry(m, t, (r + 1) % Modulus)
          BY <3>3 DEF SessionEntry, Table!Advanced
        <4> QED
          BY <2>1, <2>2, <3>1, <4>1, <4>2 DEF m
      <3>4. CASE decrypt = FALSE
        <4>1. CounterView(s, FALSE)' = (t + 1) % Modulus /\ CounterView(s, TRUE)' = r
          BY <3>2, <3>4 DEF t, r
        <4>2. Table!Advanced(req, SessionEntry(m, t, r)) = SessionEntry(m, (t + 1) % Modulus, r)
          BY <3>4 DEF SessionEntry, Table!Advanced
        <4> QED
          BY <2>1, <2>2, <3>1, <4>1, <4>2 DEF m
      <3> QED
        BY <3>3, <3>4
    <2>3. CASE u # s
      BY <1>1, <2>3 DEF Entry, Replacing, CounterView, CountInFlight, StoredCounter
    <2> QED
      BY <2>2, <2>3
  <1>7. TableView' = [TableView EXCEPT ![s] = Table!Advanced(req, @)]
    BY <1>2, <1>6, ViewOfTable, ViewOfTableNext
  <1>8. rsp' = Table!Answer(req, Entry(s))
    <2>1. operation_counter = Table!AnswerCounter(req, Entry(s))
      BY <1>3, <1>4 DEF operation_counter, Table!AnswerCounter
    <2> QED
      BY <1>1, <2>1 DEF Table!Answer
  <1>9. Table!Grant
    BY <1>1, <1>2, <1>4, <1>5, <1>7, <1>8 DEF Table!Grant
  <1> QED
    BY <1>9 DEF Table!TableNext
\* The engine fails only on a packet of other material: the table refuses it too.
LEMMA EngineRefuses ==
    ASSUME RInv, RInv', EngineDone, ~engine_auth_ok, NEW s, req.slot = s
    PROVE  [Table!TableNext]_(Table!tableVars)
  <1>1. /\ state = "S_ENGINE_WAIT" /\ state' = "S_RESPONSE"
        /\ UNCHANGED <<mem, session_valid, installed, req>> /\ rsp = None
        /\ rsp' = Refused(req, operation_counter)
    BY DEF EngineDone, history, RInv, Answering, Copied
  <1>2. req \in Request /\ s \in Slot /\ req # None
    BY <1>1, ServedSession, NoneAssumption DEF RInv, Serving, Copied
  <1>3. /\ Table!EntryOf(req) = Entry(s) /\ Entry(s).mat = installed[s]
        /\ \A w \in MaterialWord : active[w] = <<installed[s], w>>
    BY <1>1, EntryServed, CopyOfSession DEF RInv, Copied
  <1>4. req.decrypt /\ ~ \A w \in OperandWord(TRUE) : active[w] = <<req.packet, w>>
    BY Zenon DEF engine_auth_ok
  <1>5. ~Table!Granted(req, Entry(s))
    <2>1. \A w \in OperandWord(TRUE) : active[w] = <<installed[s], w>>
      BY <1>3, Layout
    <2>2. req.packet # installed[s]
      BY <1>4, <2>1
    <2>3. req.packet # Entry(s).mat
      BY <1>3, <2>2
    <2> QED
      BY <1>4, <2>3, Zenon DEF Table!Granted
  <1>6. ASSUME NEW t \in Slot PROVE Entry(t)' = Entry(t)
    BY <1>1 DEF Entry, Replacing, CounterView, CountInFlight, StoredCounter
  <1>7. TableView' = TableView
    BY <1>6, ViewOfTable, ViewOfTableNext
  <1>8. rsp' = Table!Refusal(req, IF req.decrypt THEN req.counter ELSE 0)
    BY <1>1, <1>4 DEF Refused, Table!Refusal, operation_counter
  <1>9. Table!Refuse
    BY <1>1, <1>2, <1>3, <1>5, <1>7, <1>8 DEF Table!Refuse
  <1> QED
    BY <1>9 DEF Table!TableNext

\* Writing one half of a counter changes no entry: the counter is the new one as
\* soon as it is in flight.
LEMMA HalfStep ==
    ASSUME RInv, RInv', CountWriteLo \/ CountWriteHi, NEW s, req.slot = s,
           NEW decrypt \in BOOLEAN, req.decrypt = decrypt
    PROVE  UNCHANGED Table!tableVars
  <1>1. /\ state \in Counting /\ state' \in {"S_COUNT_WRITE_HI", "S_RESPONSE"}
        /\ UNCHANGED <<session_valid, installed, req, rsp, updated_counter_q>>
    BY DEF CountWriteLo, CountWriteHi, Counting, history
  <1>2. s \in Slot
    BY <1>1, ServedSession DEF RInv, Serving
  <1>3. PICK k \in {count_word_lo(decrypt), count_word_hi(decrypt)} :
            \E x \in Half : Writes(s, k, x)
    <2>1. low_word(updated_counter_q) \in Half /\ high_word(updated_counter_q) \in Half
      BY SplitCounter DEF RInv, IInv, TypeOK
    <2> QED
      BY <2>1 DEF CountWriteLo, CountWriteHi, Writes
  <1>4. PICK x \in Half : Writes(s, k, x)
    BY <1>3
  <1>5. k \in Word
    BY <1>3, Layout
  <1>6. \A t \in Slot, v \in Word :
            Cell(t, v)' = IF t = s /\ v = k THEN x ELSE Cell(t, v)
    BY <1>2, <1>4, <1>5, WriteWord DEF RInv, IInv, TypeOK, Cell
  <1>7. ASSUME NEW t \in Slot, NEW e \in BOOLEAN
        PROVE  CounterView(t, e)' = CounterView(t, e)
    <2>1. CASE t = s /\ e = decrypt
      <3>1. CASE CountWriteLo
        BY <1>1, <2>1, <3>1 DEF CountWriteLo, CounterView, CountInFlight
      <3>2. CASE CountWriteHi
        <4>1. state = "S_COUNT_WRITE_HI" /\ state' = "S_RESPONSE"
              /\ Writes(s, count_word_hi(decrypt), high_word(updated_counter_q))
          BY <3>2 DEF CountWriteHi, Writes
        <4>2. /\ count_word_hi(decrypt) \in Word /\ count_word_lo(decrypt) \in Word
              /\ count_word_lo(decrypt) # count_word_hi(decrypt)
          BY Layout
        <4>3. /\ Cell(s, count_word_hi(decrypt))' = high_word(updated_counter_q)
              /\ Cell(s, count_word_lo(decrypt))' = Cell(s, count_word_lo(decrypt))
          BY <1>2, <4>1, <4>2, WriteWord DEF RInv, IInv, TypeOK, Cell
        <4>4. Cell(s, count_word_lo(decrypt)) = low_word(updated_counter_q)
          BY <4>1 DEF RInv, IInv, LowWritten
        <4>5. StoredCounter(s, decrypt)' = updated_counter_q
          BY <4>3, <4>4, SplitCounter DEF StoredCounter, Cell, RInv, IInv, TypeOK
        <4> QED
          BY <1>1, <2>1, <4>1, <4>5 DEF CounterView, CountInFlight
      <3> QED
        BY <3>1, <3>2
    <2>2. CASE ~(t = s /\ e = decrypt)
      <3>1. StoredCounter(t, e)' = StoredCounter(t, e)
        BY <1>3, <1>6, <2>2, Layout DEF StoredCounter, Cell
      <3> QED
        BY <1>1, <2>2, <3>1 DEF CounterView, CountInFlight
    <2> QED
      BY <2>1, <2>2
  <1>8. ASSUME NEW t \in Slot PROVE Entry(t)' = Entry(t)
    BY <1>1, <1>7 DEF Entry, Replacing, Counting
  <1> QED
    BY <1>1, <1>8, Stutters

\* Taking a response delivers it, and the entries stay.
LEMMA TakeStep ==
    ASSUME RInv, RInv', RspTake
    PROVE  [Table!TableNext]_(Table!tableVars)
  <1>1. /\ state = "S_RESPONSE" /\ state' = "S_IDLE"
        /\ UNCHANGED <<mem, session_valid, installed>>
        /\ req' = None /\ rsp' = None /\ rsp # None
    BY NoneAssumption DEF RspTake, history, RInv, Answering
  <1>2. ASSUME NEW t \in Slot PROVE Entry(t)' = Entry(t)
    BY <1>1 DEF Entry, Replacing, CounterView, CountInFlight, StoredCounter
  <1>3. Table!Deliver
    BY <1>1, <1>2, ViewOfTable, ViewOfTableNext DEF Table!Deliver
  <1> QED
    BY <1>3 DEF Table!TableNext

\* Reset empties the table, a block half written included.
LEMMA ResetStep ==
    ASSUME RInv, RInv', Reset
    PROVE  [Table!TableNext]_(Table!tableVars)
  <1>1. state' = "S_IDLE" /\ session_valid' = {} /\ req' = None /\ rsp' = None
    BY DEF Reset, valid_at_reset
  <1>2. TableView' = [s \in Slot |-> None]
    BY <1>1, ViewOfTableNext DEF Entry, Replacing
  <1>3. Table!ResetTable
    BY <1>1, <1>2 DEF Table!ResetTable, Table!Slot, Slot
  <1> QED
    BY <1>3 DEF Table!TableNext

\* Every step of the manager is a step of the table or leaves it as it is.
LEMMA RefinementStep == RInv /\ RInv' /\ [Next]_vars => [Table!TableNext]_(Table!tableVars)
  <1> SUFFICES ASSUME RInv, RInv', [Next]_vars
               PROVE  [Table!TableNext]_(Table!tableVars)
    OBVIOUS
  <1>1. ASSUME NEW s \in 0 .. SLOT_SPAN - 1, NEW valid \in BOOLEAN, CfgImmediate(s, valid)
        PROVE  [Table!TableNext]_(Table!tableVars)
    BY <1>1, ImmediateStep
  <1>2. ASSUME NEW s \in 0 .. SLOT_SPAN - 1, NEW m \in Material, CfgAccept(s, m)
        PROVE  [Table!TableNext]_(Table!tableVars)
    BY <1>2, InstallStep DEF CfgAccept
  <1>3. CASE CfgWrite
    <2>1. cfg.slot \in Slot /\ cfg.mat \in Material /\ cfg_word_q \in Word
      BY <1>3 DEF CfgWrite, RInv, IInv, Phases, TypeOK
    <2> QED
      BY <1>3, <2>1, BlockStep
  <1>4. CASE DoneFalls
    BY <1>4, QuietStep DEF DoneFalls, Counting, history
  <1>5. ASSUME NEW r \in Request, ReqAccept(r)
        PROVE  [Table!TableNext]_(Table!tableVars)
    BY <1>5, RequestStep
  <1>6. CASE ReadIssue \/ ReadCapture
    BY <1>6, QuietStep DEF ReadIssue, ReadCapture, Counting, history
  <1>7. CASE Check
    BY <1>7, CheckStep
  <1>8. CASE EngineDone
    <2>1. req.decrypt \in BOOLEAN
      BY <1>8, ServedSession DEF EngineDone, RInv, Serving, Copied
    <2> QED
      BY <1>8, <2>1, GrantStep, EngineRefuses
  <1>9. CASE CountWriteLo \/ CountWriteHi
    <2>1. req.decrypt \in BOOLEAN
      BY <1>9, ServedSession DEF CountWriteLo, CountWriteHi, RInv, Serving, Counting
    <2> QED
      BY <1>9, <2>1, HalfStep
  <1>10. CASE RspTake
    BY <1>10, TakeStep
  <1>11. CASE Reset
    BY <1>11, ResetStep
  <1>12. CASE UNCHANGED vars
    <2>1. ASSUME NEW t \in Slot PROVE Entry(t)' = Entry(t)
      BY <1>12 DEF vars, regs, history, Entry, Replacing, CounterView, CountInFlight,
                   StoredCounter
    <2>2. UNCHANGED <<req, rsp>>
      BY <1>12 DEF vars, regs
    <2> QED
      BY <2>1, <2>2, Stutters
  <1> QED
    BY <1>1, <1>2, <1>3, <1>4, <1>5, <1>6, <1>7, <1>8, <1>9, <1>10, <1>11, <1>12
       DEF Next, Cfg, Serve

-----------------------------------------------------------------------------
(* Theorem. *)

\* Whatever the manager does word by word, the hardware around it sees a table of
\* whole entries: an installation, a removal, a grant or a refusal happens in one
\* step, and reading, half-written counters and half-written blocks in none.
THEOREM ImplementsTable == Spec => ImplementsSessionTable
  <1>1. Init => Table!TableInit
    BY DEF Init, Table!TableInit, TableView, Table!Slot, Slot
  <1>2. RInv /\ RInv' /\ [Next]_vars => [Table!TableNext]_(Table!tableVars)
    BY RefinementStep
  <1> QED
    BY <1>1, <1>2, RInductive, PTL DEF Spec, ImplementsSessionTable, Table!TableSpec
=============================================================================
