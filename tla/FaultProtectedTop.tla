------------------------- MODULE FaultProtectedTop -------------------------
(***************************************************************************)
(* The fault-protected top of the programmable logic,                      *)
(* mlkem_secure_channel_fault_protected_indexed_axi_top.sv, composed with  *)
(* its two AXI front-ends, the decapsulation engine's hash schedule, the   *)
(* material core and the session manager's ports.                          *)
(*                                                                         *)
(* All of it is one clock domain, so a step of this module is one clock:   *)
(* every primed variable is computed from the values before the edge, and  *)
(* where the source assigns a register more than once the last assignment  *)
(* wins.  The inputs of a clock are a command of the processor to either   *)
(* front-end and one fault injected through fault_inject_i.                *)
(*                                                                         *)
(* A digest, key or secret is represented by whether its two rails agree;  *)
(* traffic material is the ciphertext it was derived from.  The session    *)
(* manager appears as its four phases, with its transfers shortened to     *)
(* CFG_CLOCKS and OP_CLOCKS; AeadSessionManager has its inside.            *)
(***************************************************************************)
EXTENDS Integers, Sequences

CONSTANTS Slot,              \* session slots
          Ciphertext,        \* ciphertexts a client may have sent
          MAX_STAGE_CYCLES,  \* watchdog limit of a stage
          CFG_CLOCKS,        \* clocks the manager takes to write a session
          OP_CLOCKS,         \* clocks it takes to serve a request
          FaultKind,         \* faults that may occur: the bits of fault_inject_i,
                             \* and a matrix sampling that runs out of bytes
          None

FaultName == {"hash_cmd", "ss", "transcript", "material", "stall", "spurious", "hash_error"}

ASSUME TopAssumption ==
    /\ None \notin Ciphertext /\ None \notin FaultName
    /\ FaultKind \subseteq FaultName
    /\ CFG_CLOCKS \in Nat \ {0} /\ OP_CLOCKS \in Nat \ {0}
    /\ MAX_STAGE_CYCLES \in Nat \ {0, 1}

VARIABLES
    \* protection state machine
    state, prev_state, stage_timer, hash_index,
    ss_agree, transcript_agree, material_agree,   \* do the stored rails agree?
    ss_match, transcript_match, material_match,   \* registered comparisons
    fault_detected, outstanding,
    \* decapsulation engine and hash engine
    dec_pc, dec_step, dec_fail, hash_done,
    \* handshake front-end: registers, start pulse, latched outcome
    hs, launch, hs_done, hs_fail,
    \* material core
    pending, accepted, material_q, install_done,
    \* session manager
    mgr, mgr_clocks, mgr_req, mgr_rsp, cfg_done, table,
    \* traffic front-end
    req_pending, inflight, request, done_q, captured,
    \* history: the table when the handshake was launched, and whether no fault
    \* was injected since
    launch_table, clean

fsmVars == <<state, prev_state, stage_timer, hash_index, ss_agree, transcript_agree,
             material_agree, ss_match, transcript_match, material_match,
             fault_detected, outstanding>>
decVars == <<dec_pc, dec_step, dec_fail, hash_done>>
handshakeVars == <<hs, launch, hs_done, hs_fail>>
coreVars == <<pending, accepted, material_q, install_done>>
mgrVars == <<mgr, mgr_clocks, mgr_req, mgr_rsp, cfg_done, table>>
trafficVars == <<req_pending, inflight, request, done_q, captured>>
vars == <<fsmVars, decVars, handshakeVars, coreVars, mgrVars, trafficVars, launch_table, clean>>

FsmState == {"IDLE", "D_START", "D_WAIT", "T_GUARD", "T_START", "T_WAIT", "K_GUARD",
             "K_START", "K_WAIT", "C_GUARD", "C_START", "C_WAIT", "REPORT"}
Handshake == [slot : Slot, ct : Ciphertext, tampered : BOOLEAN]
Traffic == [slot : Slot, genuine : BOOLEAN, token : {0, 1}]
Material == [slot : Slot, ct : Ciphertext]

\* None stands for the absence of any of these.
ASSUME NoneAssumption ==
    /\ None \notin FsmState /\ None \notin {0, 1}
    /\ None \notin Handshake /\ None \notin Traffic /\ None \notin Material
    /\ None \notin [slot : Slot, genuine : BOOLEAN]

-----------------------------------------------------------------------------
(* Combinational signals; inj is the fault injected in this clock. *)

\* Slip: the matrix is expected before the noise.
expected_hash_Reordered(index) ==
    IF index < 13 THEN <<0, 1, 3, 3, 3, 3, 4, 4, 4, 4, 4, 2, 5>>[index + 1] ELSE 6

\* The schedule the protection expects: H, G, five noise and four matrix
\* samplings, J, transcript, and the key derivation last.
expected_hash(index) ==
    IF index < 13 THEN <<0, 1, 4, 4, 4, 4, 4, 3, 3, 3, 3, 2, 5>>[index + 1] ELSE 6

\* The commands the decapsulation engine issues, in order.
DECAPS_HASHES == 12
decaps_command(step) ==
    CASE step = 0 -> 0 [] step = 1 -> 1 [] step \in 2 .. 6 -> 4
      [] step \in 7 .. 10 -> 3 [] step = 11 -> 2

hash_start ==
    \/ state = "T_START" /\ ~fault_detected /\ ss_match
    \/ state = "K_START" /\ ~fault_detected /\ transcript_match
    \/ state \notin {"T_START", "K_START"} /\ dec_pc = "start"
hash_command(inj) ==
    LET cmd == CASE state = "T_START" -> 5 [] state = "K_START" -> 6
                 [] OTHER -> decaps_command(dec_step)
    IN IF inj # "hash_cmd" THEN cmd ELSE IF cmd % 2 = 0 THEN cmd + 1 ELSE cmd - 1

hash_error(inj) == /\ hash_done /\ inj = "hash_error"
                   /\ dec_pc = "wait" /\ decaps_command(dec_step) = 3
hdone_ctl(inj) == hash_done /\ inj # "stall"
core_done == dec_pc = "done"
final_fail_FaultOnly == fault_detected       \* slip: the rejection is forgotten
final_fail == dec_fail \/ fault_detected

\* Slip: a fault already detected does not block the installation.
install_req_IgnoresFault == state = "C_START" /\ material_match /\ hash_index = 14
install_req == /\ state = "C_START" /\ ~fault_detected
               /\ material_match /\ hash_index = 14

req_ready_NoPriority == mgr = "IDLE"         \* slip: configuration not preferred
req_ready == mgr = "IDLE" /\ ~pending
raw_rsp_valid_Early ==                       \* slip: a clock before the result
    mgr = "RESPONSE" \/ (mgr = "BUSY" /\ mgr_clocks = 1)
raw_rsp_valid == mgr = "RESPONSE"
mon_rsp_valid(inj) == raw_rsp_valid \/ inj = "spurious"
rsp_valid(inj) == mon_rsp_valid(inj) /\ outstanding
rsp_ready == inflight

NoResponse == [token |-> None, auth |-> FALSE, error |-> FALSE]

-----------------------------------------------------------------------------

Init ==
    /\ state = "IDLE" /\ prev_state = "IDLE" /\ stage_timer = 0 /\ hash_index = 0
    /\ ss_agree = TRUE /\ transcript_agree = TRUE /\ material_agree = TRUE
    /\ ss_match = FALSE /\ transcript_match = FALSE /\ material_match = FALSE
    /\ fault_detected = FALSE /\ outstanding = FALSE
    /\ dec_pc = "idle" /\ dec_step = 0 /\ dec_fail = FALSE /\ hash_done = FALSE
    /\ hs = None /\ launch = FALSE /\ hs_done = FALSE /\ hs_fail = FALSE
    /\ pending = FALSE /\ accepted = FALSE /\ material_q = None /\ install_done = FALSE
    /\ mgr = "IDLE" /\ mgr_clocks = 0 /\ mgr_req = None /\ mgr_rsp = NoResponse
    /\ cfg_done = FALSE /\ table = [s \in Slot |-> None]
    /\ req_pending = FALSE /\ inflight = FALSE /\ request = None
    /\ done_q = FALSE /\ captured = NoResponse
    /\ launch_table = table /\ clean = TRUE

-----------------------------------------------------------------------------
(* The protection state machine. *)

\* What the case statement assigns to state, None where it assigns nothing.
Scheduled(inj) ==
    CASE state = "IDLE" /\ launch -> "D_START"
      [] state = "D_START" -> "D_WAIT"
      [] state = "D_WAIT" /\ core_done -> IF dec_fail THEN "REPORT" ELSE "T_GUARD"
      [] state = "T_GUARD" -> "T_START"
      [] state = "T_START" -> IF fault_detected \/ ~ss_match THEN "REPORT" ELSE "T_WAIT"
      [] state = "T_WAIT" /\ hdone_ctl(inj) -> "K_GUARD"
      [] state = "K_GUARD" -> "K_START"
      [] state = "K_START" -> IF fault_detected \/ ~transcript_match THEN "REPORT"
                                                                     ELSE "K_WAIT"
      [] state = "K_WAIT" /\ hdone_ctl(inj) -> "C_GUARD"
      [] state = "C_GUARD" -> "C_START"
      [] state = "C_START" -> IF install_req THEN "C_WAIT" ELSE "REPORT"
      [] state = "C_WAIT" /\ install_done -> "REPORT"
      [] state = "REPORT" -> "IDLE"
      [] OTHER -> None

\* Slips: no guard state before the material check; a watchdog that reports nothing.
NextState_NoGuard(inj, watchdog) ==
    CASE Scheduled(inj) = "C_GUARD" -> "C_START"
      [] Scheduled(inj) = None -> IF watchdog THEN "REPORT" ELSE state
      [] OTHER -> Scheduled(inj)
NextState_ToIdle(inj, watchdog) ==
    CASE Scheduled(inj) # None -> Scheduled(inj)
      [] Scheduled(inj) = None /\ watchdog -> "IDLE"
      [] OTHER -> state

\* The watchdog's REPORT stays only where the case statement assigns nothing.
NextState(inj, watchdog) ==
    CASE Scheduled(inj) # None -> Scheduled(inj)
      [] Scheduled(inj) = None /\ watchdog -> "REPORT"
      [] OTHER -> state

\* Everything that sets fault_detected in this clock.
FaultRaised(inj, watchdog) ==
    \/ watchdog
    \/ hash_start /\ (hash_index >= 14 \/ hash_command(inj) # expected_hash(hash_index))
    \/ hash_error(inj)
    \/ mon_rsp_valid(inj) /\ ~outstanding
    \/ state = "D_WAIT" /\ core_done /\ hash_index # 12
    \/ state = "T_START" /\ ~ss_match
    \/ state = "K_START" /\ ~transcript_match
    \/ state = "C_START" /\ ~install_req

FsmNext(inj) ==
    LET watchdog == stage_timer >= MAX_STAGE_CYCLES - 1
        started == state = "IDLE" /\ launch
    IN /\ prev_state' = state
       /\ state' = NextState(inj, watchdog)
       /\ stage_timer' = IF started \/ state # prev_state THEN 0
                         ELSE IF state \in {"IDLE", "REPORT"} THEN stage_timer
                         ELSE stage_timer + 1
       /\ fault_detected' = (~started /\ (fault_detected \/ FaultRaised(inj, watchdog)))
       /\ hash_index' = IF started THEN 0
                        ELSE IF hash_start THEN hash_index + 1 ELSE hash_index
       /\ ss_match' = ss_agree
       /\ transcript_match' = transcript_agree
       /\ material_match' = material_agree
       /\ ss_agree' = IF state = "D_WAIT" /\ core_done THEN inj # "ss" ELSE ss_agree
       /\ transcript_agree' = IF state = "T_WAIT" /\ hdone_ctl(inj)
                              THEN inj # "transcript" ELSE transcript_agree
       /\ material_agree' = IF state = "K_WAIT" /\ hdone_ctl(inj)
                            THEN inj # "material" ELSE material_agree
       /\ outstanding' = IF raw_rsp_valid /\ rsp_ready /\ outstanding THEN FALSE
                         ELSE outstanding \/ (req_pending /\ req_ready)
       /\ launch_table' = IF started THEN table ELSE launch_table
       /\ clean' = (inj = None /\ (started \/ clean))

\* The decapsulation engine asks for one hash at a time and waits for it; a
\* ciphertext that re-encryption does not reproduce sets fail_o.  It ignores a
\* start while it is not idle.
DecapsNext(inj) ==
    /\ hash_done' = hash_start
    /\ \/ /\ dec_pc = "idle"
          /\ dec_pc' = IF state = "D_START" THEN "start" ELSE "idle"
          /\ dec_step' = 0
          /\ dec_fail' = (dec_fail /\ state # "D_START")
       \/ /\ dec_pc = "start"
          /\ dec_pc' = "wait"
          /\ UNCHANGED <<dec_step, dec_fail>>
       \/ /\ dec_pc = "wait" /\ ~hdone_ctl(inj)
          /\ UNCHANGED <<dec_pc, dec_step, dec_fail>>
       \/ /\ dec_pc = "wait" /\ hdone_ctl(inj)
          /\ dec_step' = dec_step + 1
          /\ dec_pc' = IF dec_step' = DECAPS_HASHES THEN "done" ELSE "start"
          /\ dec_fail' = \/ dec_fail \/ hash_error(inj)
                         \/ dec_step' = DECAPS_HASHES - 1 /\ hs.tampered
       \/ /\ dec_pc = "done"
          /\ dec_pc' = "idle"
          /\ UNCHANGED <<dec_step, dec_fail>>

-----------------------------------------------------------------------------
(* Handshake front-end.  The driver loads the ciphertext, slot and session    *)
(* registers and clears the latched outcome before it writes START, and waits *)
(* for the outcome before it writes them again.                               *)

HandshakePort(start) ==
    /\ launch' = (start # None)
    /\ hs' = IF start # None THEN start ELSE hs
    /\ hs_done' = (start = None /\ (hs_done \/ state = "REPORT"))
    /\ hs_fail' = (start = None /\ IF state = "REPORT" THEN final_fail ELSE hs_fail)

HandshakeStart == IF state = "IDLE" /\ ~launch THEN Handshake \cup {None} ELSE {None}

-----------------------------------------------------------------------------
(* Material core: one installation at a time, held until the manager is idle. *)

CoreNext ==
    /\ pending' = IF pending THEN mgr # "IDLE" ELSE install_req /\ ~accepted
    /\ material_q' = IF install_req /\ ~pending /\ ~accepted
                     THEN [slot |-> hs.slot, ct |-> hs.ct] ELSE material_q
    /\ accepted' = IF accepted THEN ~cfg_done ELSE pending /\ mgr = "IDLE"
    /\ install_done' = (accepted /\ cfg_done)

-----------------------------------------------------------------------------
(* The session manager, by phases.  A configuration goes before a request. *)

ServeResult(r) == IF table[r.slot] # None /\ r.genuine
                  THEN [token |-> r.token, auth |-> TRUE, error |-> FALSE]
                  ELSE [token |-> r.token, auth |-> FALSE, error |-> TRUE]

ManagerNext ==
    /\ cfg_done' = (mgr = "CFG" /\ mgr_clocks = 1)
    /\ \/ /\ mgr = "IDLE" /\ pending
          /\ mgr' = "CFG" /\ mgr_clocks' = CFG_CLOCKS
          /\ UNCHANGED <<mgr_req, mgr_rsp, table>>
       \/ /\ mgr = "IDLE" /\ ~pending /\ req_pending
          /\ mgr' = "BUSY" /\ mgr_clocks' = OP_CLOCKS
          /\ mgr_req' = request
          /\ mgr_rsp' = NoResponse
          /\ UNCHANGED table
       \/ /\ mgr = "IDLE" /\ ~pending /\ ~req_pending
          /\ UNCHANGED <<mgr, mgr_clocks, mgr_req, mgr_rsp, table>>
       \/ /\ mgr \in {"CFG", "BUSY"} /\ mgr_clocks > 1
          /\ mgr_clocks' = mgr_clocks - 1
          /\ UNCHANGED <<mgr, mgr_req, mgr_rsp, table>>
       \/ /\ mgr = "CFG" /\ mgr_clocks = 1
          /\ mgr' = "IDLE" /\ mgr_clocks' = 0
          /\ table' = [table EXCEPT ![material_q.slot] = material_q.ct]
          /\ UNCHANGED <<mgr_req, mgr_rsp>>
       \/ /\ mgr = "BUSY" /\ mgr_clocks = 1
          /\ mgr' = "RESPONSE" /\ mgr_clocks' = 0
          /\ mgr_rsp' = ServeResult(mgr_req)
          /\ UNCHANGED <<mgr_req, table>>
       \/ /\ mgr = "RESPONSE"
          /\ mgr' = IF rsp_ready THEN "IDLE" ELSE "RESPONSE"
          /\ mgr_req' = IF rsp_ready THEN None ELSE mgr_req
          /\ UNCHANGED <<mgr_clocks, mgr_rsp, table>>

-----------------------------------------------------------------------------
(* Traffic front-end.  START is ignored while a request is pending or in      *)
(* flight; a request is numbered alternately so that its answer is told apart *)
(* from the one before.                                                       *)

Token_NoWrap == IF request = None THEN 0 ELSE request.token + 1   \* slip
Token == IF request = None THEN 0 ELSE 1 - request.token

TrafficPort(inj, start) ==
    \/ /\ inflight
       /\ req_pending' = (req_pending /\ ~req_ready)
       /\ IF rsp_valid(inj)
          THEN /\ captured' = [token |-> mgr_rsp.token,
                               auth |-> mgr_rsp.auth /\ ~fault_detected,
                               error |-> mgr_rsp.error \/ fault_detected]
               /\ done_q' = TRUE
               /\ inflight' = FALSE
          ELSE UNCHANGED <<captured, done_q, inflight>>
       /\ UNCHANGED request
    \/ /\ ~inflight
       /\ IF start # None /\ ~req_pending
          THEN /\ request' = [slot |-> start.slot, genuine |-> start.genuine,
                              token |-> Token]
               /\ req_pending' = TRUE /\ inflight' = TRUE
               /\ done_q' = FALSE /\ captured' = NoResponse
          ELSE /\ req_pending' = (req_pending /\ ~req_ready)
               /\ UNCHANGED <<request, inflight, done_q, captured>>

TrafficStart == [slot : Slot, genuine : BOOLEAN] \cup {None}

-----------------------------------------------------------------------------

Clock == \E inj \in FaultKind \cup {None}, h \in HandshakeStart, t \in TrafficStart :
            /\ FsmNext(inj)
            /\ DecapsNext(inj)
            /\ HandshakePort(h)
            /\ CoreNext
            /\ ManagerNext
            /\ TrafficPort(inj, t)

Spec == Init /\ [][Clock]_vars

\* The clock runs.
FairSpec == Spec /\ WF_vars(Clock)

-----------------------------------------------------------------------------
(* Properties. *)

\* Every register holds a value of its kind.
TypeOK ==
    /\ state \in FsmState /\ prev_state \in FsmState
    /\ stage_timer \in 0 .. MAX_STAGE_CYCLES /\ hash_index \in 0 .. 14
    /\ {ss_agree, transcript_agree, material_agree, ss_match, transcript_match,
        material_match, fault_detected, outstanding} \subseteq BOOLEAN
    /\ dec_pc \in {"idle", "start", "wait", "done"} /\ dec_step \in 0 .. DECAPS_HASHES
    /\ {dec_fail, hash_done, launch, hs_done, hs_fail} \subseteq BOOLEAN
    /\ hs \in Handshake \cup {None}
    /\ {pending, accepted, install_done, cfg_done} \subseteq BOOLEAN
    /\ material_q \in Material \cup {None}
    /\ mgr \in {"IDLE", "CFG", "BUSY", "RESPONSE"}
    /\ mgr_req \in Traffic \cup {None} /\ request \in Traffic \cup {None}
    /\ table \in [Slot -> Ciphertext \cup {None}]
    /\ {req_pending, inflight, done_q} \subseteq BOOLEAN

\* A handshake that reports failure has installed nothing and leaves nothing
\* behind in the material core that could still be installed.
FailedHandshakeInstallsNothing ==
    state = "REPORT" /\ final_fail =>
        /\ table = launch_table
        /\ ~pending /\ ~accepted /\ mgr # "CFG"

\* A handshake that reports success was not tampered with, and has installed
\* its own ciphertext's material in its own slot and changed no other slot.
SuccessInstallsItsMaterial ==
    state = "REPORT" /\ ~final_fail =>
        /\ ~hs.tampered
        /\ table = [launch_table EXCEPT ![hs.slot] = hs.ct]

\* No installation is under way whose secret, transcript or material was found
\* on two rails that disagree: each comparison read is one of the value stored
\* for this handshake, not of the one before it.
InstallNeedsAgreement ==
    state = "C_WAIT" => ss_agree /\ transcript_agree /\ material_agree

\* A handshake during which no fault occurs is refused only if its ciphertext
\* was tampered with, whatever went wrong in earlier handshakes.
CleanHandshakeSucceeds ==
    state = "REPORT" /\ clean => (final_fail => hs.tampered)

\* The answer the processor reads is the answer to the request it made last.
AnswerIsForRequest == done_q => captured.token = request.token

\* Every launched handshake ends, even when a hash never completes.
HandshakeEnds == launch ~> hs_done

\* Every accepted request is answered.
RequestAnswered == inflight ~> done_q
=============================================================================
