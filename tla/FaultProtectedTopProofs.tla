----------------------- MODULE FaultProtectedTopProofs -----------------------
(***************************************************************************)
(* The fault-protected top, proved for every set of slots and ciphertexts, *)
(* every length of a stage and of the manager's transfers, and any number  *)
(* of faults in any clocks.  Three invariants stand on one another:        *)
(*   FaultInv    whatever faults occur and however short a stage is;       *)
(*   InstallInv  no response is made up and an installation fits a stage;  *)
(*   CleanInv    no completion is lost and a decapsulation fits a stage.   *)
(* The conditions are conjuncts of the invariants they allow, so that each *)
(* theorem names the builds it is about.                                   *)
(***************************************************************************)
EXTENDS FaultProtectedTop, TLAPS

\* What the proofs of the handshake assume of the build: no response pulse is
\* made up, and a stage outlasts a request and an installation.
NoSpurious == "spurious" \notin FaultKind
InstallFits == MAX_STAGE_CYCLES > OP_CLOCKS + CFG_CLOCKS + 3

\* What the success of a clean handshake needs beyond that: hash completions
\* arrive, and a stage outlasts the decapsulation's twelve hashes.
NoStall == "stall" \notin FaultKind
DecapsFits == MAX_STAGE_CYCLES >= 2 * DECAPS_HASHES + 2

Deriving == {"T_GUARD", "T_START", "T_WAIT", "K_GUARD", "K_START", "K_WAIT",
             "C_GUARD", "C_START", "C_WAIT"}

\* Hashes the decapsulation engine has asked for, the one under way included.
Asked == IF dec_pc = "wait" THEN dec_step + 1 ELSE dec_step

-----------------------------------------------------------------------------
(* What holds whatever faults occur and however short a stage is.            *)

Registers ==
    /\ TypeOK
    /\ mgr_clocks \in Nat
    /\ mgr \in {"CFG", "BUSY"} => mgr_clocks > 0
    /\ state # "IDLE" \/ launch => hs \in Handshake
    /\ pending \/ mgr = "CFG" => material_q # None
    /\ req_pending \/ inflight => request # None
    /\ mgr = "BUSY" => mgr_req # None
    /\ state = prev_state /\ state # "IDLE" => stage_timer < MAX_STAGE_CYCLES
    /\ state = "IDLE" => stage_timer = 0
    /\ state = "REPORT" => prev_state # "REPORT"

\* The hashes counted are hashes asked for; no decapsulation runs once its key
\* is taken.
Counted ==
    /\ dec_pc \in {"start", "wait"} => dec_step < DECAPS_HASHES
    /\ dec_pc = "done" => dec_step = DECAPS_HASHES
    /\ dec_pc # "idle" => hash_index <= Asked
    /\ state = "D_START" => hash_index = 0
    /\ state \in Deriving => dec_pc = "idle"
    /\ state \in {"T_GUARD", "T_START"} => hash_index <= 12
    /\ state \in {"T_WAIT", "K_GUARD", "K_START"} => hash_index <= 13

\* What was compared a clock ago is still what is stored.
Compared ==
    /\ state = "T_START" => ss_match = ss_agree
    /\ state \in Deriving \ {"T_GUARD", "T_START"} => ss_agree
    /\ state = "K_START" => transcript_match = transcript_agree
    /\ state \in {"K_WAIT", "C_GUARD", "C_START", "C_WAIT"} => transcript_agree
    /\ state = "C_START" => material_match = material_agree
    /\ state = "C_WAIT" => material_agree

\* A rejected ciphertext is known to be one when the key is taken, unless the
\* decapsulation was begun for an earlier one; then hashes are missing.
Rejected ==
    /\ state \in Deriving => ~dec_fail
    /\ state = "D_WAIT" /\ dec_pc # "idle" /\ dec_step >= DECAPS_HASHES - 1
         /\ hs.tampered /\ ~dec_fail =>
         hash_index <= IF dec_pc = "start" THEN 0 ELSE 1
    /\ state \in Deriving => fault_detected \/ ~hs.tampered

FaultInv == Registers /\ Counted /\ Compared /\ Rejected

-----------------------------------------------------------------------------
(* What holds without made-up responses when an installation fits a stage.   *)

\* The front-end, the outstanding bit and the manager agree on the request.
Served ==
    /\ outstanding <=> mgr \in {"BUSY", "RESPONSE"}
    /\ inflight <=> req_pending \/ mgr \in {"BUSY", "RESPONSE"}
    /\ req_pending => mgr \notin {"BUSY", "RESPONSE"}
    /\ mgr \in {"BUSY", "RESPONSE"} => mgr_req = request
    /\ mgr = "RESPONSE" => mgr_rsp.token = request.token
    /\ mgr = "BUSY" => mgr_clocks <= OP_CLOCKS
    /\ mgr = "CFG" => mgr_clocks <= CFG_CLOCKS
    /\ AnswerIsForRequest

Installed == table = [launch_table EXCEPT ![hs.slot] = hs.ct]

\* The four phases of an installation, one after another.
Offered == /\ pending /\ ~accepted /\ ~cfg_done /\ ~install_done
           /\ mgr # "CFG" /\ table = launch_table
Writing == /\ ~pending /\ accepted /\ ~cfg_done /\ ~install_done
           /\ mgr = "CFG" /\ table = launch_table
Written == /\ ~pending /\ accepted /\ cfg_done /\ ~install_done
           /\ mgr # "CFG" /\ Installed
Confirmed == /\ ~pending /\ ~accepted /\ ~cfg_done /\ install_done
             /\ mgr # "CFG" /\ Installed

\* Clocks until the installation is over.
ClocksLeft ==
    CASE install_done -> 1
      [] ~install_done /\ cfg_done -> 2
      [] ~install_done /\ ~cfg_done /\ mgr = "CFG" -> mgr_clocks + 2
      [] ~install_done /\ ~cfg_done /\ mgr = "IDLE" -> CFG_CLOCKS + 3
      [] ~install_done /\ ~cfg_done /\ mgr = "RESPONSE" -> CFG_CLOCKS + 4
      [] ~install_done /\ ~cfg_done /\ mgr = "BUSY" -> CFG_CLOCKS + 4 + mgr_clocks

\* The watchdog does not end an installation.
InTime ==
    /\ state = "C_GUARD" => prev_state = "K_WAIT"
    /\ state = "C_START" => stage_timer = 0 /\ prev_state = "C_GUARD"
    /\ state = "C_WAIT" /\ prev_state # "C_WAIT" =>
         stage_timer = 0 /\ ClocksLeft <= OP_CLOCKS + CFG_CLOCKS + 4
    /\ state = "C_WAIT" /\ prev_state = "C_WAIT" =>
         stage_timer + ClocksLeft <= OP_CLOCKS + CFG_CLOCKS + 3

\* The material core and the manager's configuration port are used in C_WAIT
\* only, for the handshake's own material, and are through before it reports.
Installs ==
    /\ state # "C_WAIT" => /\ ~pending /\ ~accepted /\ ~cfg_done /\ ~install_done
                           /\ mgr # "CFG"
    /\ state = "C_WAIT" => /\ ~fault_detected
                           /\ material_q = [slot |-> hs.slot, ct |-> hs.ct]
                           /\ Offered \/ Writing \/ Written \/ Confirmed
    /\ state \notin {"IDLE", "C_WAIT", "REPORT"} => table = launch_table
    /\ state = "REPORT" => IF final_fail THEN table = launch_table
                                         ELSE Installed /\ ~hs.tampered

InstallInv == NoSpurious /\ InstallFits /\ FaultInv /\ Served /\ InTime /\ Installs

-----------------------------------------------------------------------------
(* What holds when completions are not lost either.                          *)

\* The decapsulation runs in D_WAIT only, at two clocks a hash.
OnSchedule ==
    /\ dec_pc # "idle" <=> state = "D_WAIT"
    /\ dec_pc = "wait" \/ state \in {"T_WAIT", "K_WAIT"} => hash_done
    /\ state = "D_WAIT" => hash_index = Asked
    /\ state = "D_WAIT" /\ prev_state # "D_WAIT" =>
         stage_timer = 0 /\ dec_pc = "start" /\ dec_step = 0
    /\ state = "D_WAIT" /\ prev_state = "D_WAIT" =>
         stage_timer + 1 = dec_step + Asked
    /\ state = "T_GUARD" => stage_timer <= 2 * DECAPS_HASHES
    /\ state \in (Deriving \ {"T_GUARD", "C_WAIT"}) \cup {"D_START"} => stage_timer = 0
    /\ state \in (Deriving \ {"C_WAIT"}) \cup {"D_START"} => prev_state # state
    /\ state \in {"T_GUARD", "T_START"} => hash_index = 12
    /\ state \in {"T_WAIT", "K_GUARD", "K_START"} => hash_index = 13
    /\ state \in {"K_WAIT", "C_GUARD", "C_START", "C_WAIT"} => hash_index = 14

\* Nothing found wrong since the launch, unless the ciphertext was tampered with.
Untroubled ==
    clean => /\ state # "IDLE" => ~fault_detected
             /\ state \in {"D_WAIT", "REPORT"} => (dec_fail => hs.tampered)
             /\ state \in Deriving => ss_agree
             /\ state \in {"K_GUARD", "K_START"} => transcript_agree
             /\ state \in {"C_GUARD", "C_START"} => material_agree

CleanInv == NoStall /\ DecapsFits /\ InstallInv /\ OnSchedule /\ Untroubled

-----------------------------------------------------------------------------
(* The steps of the protection state machine.                                *)

\* The moves of the case statement and the watchdog, one for each state.
Moves(inj) ==
    \/ state = "IDLE" /\ state' = IF launch THEN "D_START" ELSE "IDLE"
    \/ state = "D_START" /\ state' = "D_WAIT"
    \/ state = "D_WAIT" /\ core_done /\ dec_fail /\ state' = "REPORT"
    \/ state = "D_WAIT" /\ core_done /\ ~dec_fail /\ state' = "T_GUARD"
    \/ state = "D_WAIT" /\ ~core_done /\ state' \in {"D_WAIT", "REPORT"}
    \/ state = "T_GUARD" /\ state' = "T_START"
    \/ state = "T_START" /\ state' = IF hash_start THEN "T_WAIT" ELSE "REPORT"
    \/ state = "T_WAIT" /\ hdone_ctl(inj) /\ state' = "K_GUARD"
    \/ state = "T_WAIT" /\ ~hdone_ctl(inj) /\ state' \in {"T_WAIT", "REPORT"}
    \/ state = "K_GUARD" /\ state' = "K_START"
    \/ state = "K_START" /\ state' = IF hash_start THEN "K_WAIT" ELSE "REPORT"
    \/ state = "K_WAIT" /\ hdone_ctl(inj) /\ state' = "C_GUARD"
    \/ state = "K_WAIT" /\ ~hdone_ctl(inj) /\ state' \in {"K_WAIT", "REPORT"}
    \/ state = "C_GUARD" /\ state' = "C_START"
    \/ state = "C_START" /\ state' = IF install_req THEN "C_WAIT" ELSE "REPORT"
    \/ state = "C_WAIT" /\ install_done /\ state' = "REPORT"
    \/ state = "C_WAIT" /\ ~install_done /\ state' \in {"C_WAIT", "REPORT"}
    \/ state = "REPORT" /\ state' = "IDLE"

\* A state that waits is left for REPORT when the watchdog expires, and only
\* then; a watchdog that expires is a fault.
Watched(inj) ==
    /\ state' = state /\ state # "IDLE" => stage_timer < MAX_STAGE_CYCLES - 1
    /\ stage_timer < MAX_STAGE_CYCLES - 1 =>
          /\ state = "D_WAIT" /\ ~core_done => state' = "D_WAIT"
          /\ state \in {"T_WAIT", "K_WAIT"} /\ ~hdone_ctl(inj) => state' = state
          /\ state = "C_WAIT" /\ ~install_done => state' = "C_WAIT"

\* Every clock of the protection state machine is one of these moves.
LEMMA Transitions ==
    ASSUME FaultInv, NEW inj, FsmNext(inj)
    PROVE  Moves(inj) /\ Watched(inj)
<1> DEFINE watchdog == stage_timer >= MAX_STAGE_CYCLES - 1
<1>1. /\ state' = NextState(inj, watchdog)
      /\ state \in FsmState
      /\ MAX_STAGE_CYCLES \in Nat \ {0, 1}
      /\ stage_timer \in Int
      /\ state = "IDLE" => ~watchdog
      /\ None \notin FsmState
  BY TopAssumption, NoneAssumption DEF FsmNext, FaultInv, Registers, TypeOK
<1> HIDE DEF watchdog
<1>2. Moves(inj) /\ (state' = state /\ state # "IDLE" => ~watchdog)
      /\ (~watchdog =>
             /\ state = "D_WAIT" /\ ~core_done => state' = "D_WAIT"
             /\ state \in {"T_WAIT", "K_WAIT"} /\ ~hdone_ctl(inj) => state' = state
             /\ state = "C_WAIT" /\ ~install_done => state' = "C_WAIT")
  <2>1. CASE state = "IDLE"
    BY <1>1, <2>1 DEF NextState, Scheduled, Moves, FsmState
  <2>2. CASE state \in {"D_START", "T_GUARD", "K_GUARD", "C_GUARD", "REPORT"}
    BY <1>1, <2>2 DEF NextState, Scheduled, Moves, FsmState
  <2>3. CASE state = "D_WAIT"
    BY <1>1, <2>3 DEF NextState, Scheduled, Moves, FsmState
  <2>4. CASE state = "T_START"
    BY <1>1, <2>4 DEF NextState, Scheduled, Moves, FsmState, hash_start
  <2>5. CASE state = "K_START"
    BY <1>1, <2>5 DEF NextState, Scheduled, Moves, FsmState, hash_start
  <2>6. CASE state = "C_START"
    BY <1>1, <2>6 DEF NextState, Scheduled, Moves, FsmState, install_req
  <2>7. CASE state = "T_WAIT"
    BY <1>1, <2>7 DEF NextState, Scheduled, Moves, FsmState
  <2>8. CASE state = "K_WAIT"
    BY <1>1, <2>8 DEF NextState, Scheduled, Moves, FsmState
  <2>9. CASE state = "C_WAIT"
    BY <1>1, <2>9 DEF NextState, Scheduled, Moves, FsmState
  <2> QED
    BY <1>1, <2>1, <2>2, <2>3, <2>4, <2>5, <2>6, <2>7, <2>8, <2>9 DEF FsmState
<1> QED
  BY <1>1, <1>2 DEF Watched, watchdog

\* The steps of the decapsulation engine, one for each of its states.
DecapsMoves(inj) ==
    /\ hash_done' = hash_start
    /\ dec_pc = "idle" => /\ dec_pc' = (IF state = "D_START" THEN "start" ELSE "idle")
                          /\ dec_step' = 0
    /\ dec_pc = "start" => dec_pc' = "wait" /\ dec_step' = dec_step
    /\ dec_pc = "wait" /\ ~hdone_ctl(inj) => dec_pc' = "wait" /\ dec_step' = dec_step
    /\ dec_pc = "wait" /\ hdone_ctl(inj) =>
         dec_pc' = (IF dec_step = 11 THEN "done" ELSE "start") /\ dec_step' = dec_step + 1
    /\ dec_pc = "done" => dec_pc' = "idle" /\ dec_step' = dec_step

\* What becomes of the engine's failure flag.
RejectMoves(inj) ==
    /\ dec_fail' \in BOOLEAN
    /\ dec_pc = "idle" => dec_fail' = (dec_fail /\ state # "D_START")
    /\ dec_pc \in {"start", "done"} => dec_fail' = dec_fail
    /\ dec_pc = "wait" /\ ~hdone_ctl(inj) => dec_fail' = dec_fail
    /\ dec_pc = "wait" /\ hdone_ctl(inj) =>
         (dec_fail' <=> dec_fail \/ hash_error(inj) \/ (dec_step = 10 /\ hs.tampered))

\* Every clock of the decapsulation engine is one of these steps.
LEMMA EngineSteps ==
    ASSUME FaultInv, NEW inj, DecapsNext(inj)
    PROVE  DecapsMoves(inj) /\ RejectMoves(inj)
<1>1. dec_pc \in {"idle", "start", "wait", "done"} /\ dec_step \in Int
      /\ dec_fail \in BOOLEAN
  BY DEF FaultInv, Registers, TypeOK
<1>2. CASE dec_pc = "idle"
  BY <1>1, <1>2 DEF DecapsNext, DecapsMoves, RejectMoves
<1>3. CASE dec_pc = "start"
  BY <1>1, <1>3 DEF DecapsNext, DecapsMoves, RejectMoves
<1>4. CASE dec_pc = "wait" /\ ~hdone_ctl(inj)
  BY <1>1, <1>4 DEF DecapsNext, DecapsMoves, RejectMoves
<1>5. CASE dec_pc = "wait" /\ hdone_ctl(inj)
  <2>1. /\ dec_step' = dec_step + 1
        /\ dec_pc' = IF dec_step' = 12 THEN "done" ELSE "start"
        /\ dec_fail' \in BOOLEAN
        /\ dec_fail' <=> \/ dec_fail \/ hash_error(inj)
                         \/ dec_step' = 12 - 1 /\ hs.tampered
        /\ hash_done' = hash_start
    BY <1>5 DEF DecapsNext, DECAPS_HASHES
  <2>2. (dec_step' = 12 <=> dec_step = 11) /\ (dec_step' = 12 - 1 <=> dec_step = 10)
    BY <1>1, <2>1
  <2> QED
    BY <1>5, <2>1, <2>2, SMT DEF DecapsMoves, RejectMoves
<1>6. CASE dec_pc = "done"
  BY <1>1, <1>6 DEF DecapsNext, DecapsMoves, RejectMoves
<1> QED
  BY <1>1, <1>2, <1>3, <1>4, <1>5, <1>6

-----------------------------------------------------------------------------
(* What holds whatever faults occur.                                         *)

\* A clock keeps the protection state machine's registers in range.
LEMMA FsmRegisters ==
    ASSUME FaultInv, NEW inj, FsmNext(inj)
    PROVE  /\ state' \in FsmState /\ prev_state' = state
           /\ stage_timer' \in 0 .. MAX_STAGE_CYCLES /\ hash_index' \in 0 .. 14
           /\ {ss_agree', transcript_agree', material_agree', ss_match', transcript_match',
               material_match', fault_detected', outstanding'} \subseteq BOOLEAN
           /\ state' = prev_state' /\ state' # "IDLE" => stage_timer' < MAX_STAGE_CYCLES
           /\ state' = "IDLE" => stage_timer' = 0
           /\ state' = "REPORT" => prev_state' # "REPORT"
<1> USE DEF FaultInv
<1>1. Moves(inj) /\ Watched(inj)
  BY Transitions
<1>2. state' \in FsmState /\ prev_state' = state
  BY <1>1 DEF Moves, FsmState, FsmNext
<1>3. MAX_STAGE_CYCLES \in Nat \ {0, 1} /\ stage_timer \in 0 .. MAX_STAGE_CYCLES
  BY TopAssumption DEF Registers, TypeOK
<1>4. /\ stage_timer' \in 0 .. MAX_STAGE_CYCLES
      /\ state' = prev_state' /\ state' # "IDLE" => stage_timer' < MAX_STAGE_CYCLES
      /\ state' = "IDLE" => stage_timer' = 0
  <2>1. stage_timer' = IF (state = "IDLE" /\ launch) \/ state # prev_state THEN 0
                       ELSE IF state \in {"IDLE", "REPORT"} THEN stage_timer
                       ELSE stage_timer + 1
    BY DEF FsmNext
  <2>2. /\ state = prev_state /\ state # "IDLE" => stage_timer < MAX_STAGE_CYCLES
        /\ state = "IDLE" => stage_timer = 0
        /\ state = "REPORT" => prev_state # "REPORT"
    BY DEF Registers
  <2>3. state' = "IDLE" => state \in {"IDLE", "REPORT"}
    BY <1>1 DEF Moves
  <2> QED
    BY <1>1, <1>2, <1>3, <2>1, <2>2, <2>3 DEF Watched
<1>5. state' = "REPORT" => prev_state' # "REPORT"
  BY <1>1, <1>2 DEF Moves
<1>6. hash_index' \in 0 .. 14
  <2>1. hash_index' = IF state = "IDLE" /\ launch THEN 0
                      ELSE IF hash_start THEN hash_index + 1 ELSE hash_index
    BY DEF FsmNext
  <2>2. hash_start => hash_index < 14
    <3>1. dec_pc = "start" => hash_index < 12
      BY DEF Counted, Asked, DECAPS_HASHES, Registers, TypeOK
    <3> QED
      BY <3>1 DEF hash_start, Counted, Registers, TypeOK
  <2> QED
    BY <2>1, <2>2 DEF Registers, TypeOK
<1>7. {ss_agree', transcript_agree', material_agree', ss_match', transcript_match',
       material_match', fault_detected', outstanding'} \subseteq BOOLEAN
  BY DEF FsmNext, Registers, TypeOK
<1> QED
  BY <1>2, <1>4, <1>5, <1>6, <1>7

\* A clock keeps the registers of the engine and of the handshake front-end in range.
LEMMA DecapsRegisters ==
    ASSUME FaultInv, NEW inj, NEW h \in HandshakeStart,
           FsmNext(inj), DecapsNext(inj), HandshakePort(h)
    PROVE  /\ dec_pc' \in {"idle", "start", "wait", "done"}
           /\ dec_step' \in 0 .. DECAPS_HASHES
           /\ {dec_fail', hash_done', launch', hs_done', hs_fail'} \subseteq BOOLEAN
           /\ hs' \in Handshake \cup {None}
           /\ state' # "IDLE" \/ launch' => hs' \in Handshake
<1> USE DEF FaultInv
<1>1. /\ dec_pc' \in {"idle", "start", "wait", "done"}
      /\ dec_step' \in 0 .. DECAPS_HASHES
      /\ dec_fail' \in BOOLEAN
  BY EngineSteps DEF DecapsMoves, RejectMoves, Registers, TypeOK, Counted, DECAPS_HASHES
<1>2. hash_done' \in BOOLEAN
  BY DEF DecapsNext, hash_start
<1>3. {launch', hs_done', hs_fail'} \subseteq BOOLEAN
  BY DEF HandshakePort, final_fail, Registers, TypeOK
<1>4. h = None \/ (h \in Handshake /\ state = "IDLE" /\ ~launch)
  BY DEF HandshakeStart
<1>5. /\ hs' \in Handshake \cup {None}
      /\ state' # "IDLE" \/ launch' => hs' \in Handshake
  <2>1. state' # "IDLE" => state # "IDLE" \/ launch
    BY Transitions DEF Moves
  <2> QED
    BY <1>4, <2>1 DEF HandshakePort, Registers, TypeOK
<1> QED
  BY <1>1, <1>2, <1>3, <1>5

\* A clock keeps the registers of the material core, the manager and the traffic
\* front-end in range.
LEMMA TrafficRegisters ==
    ASSUME FaultInv, NEW inj, NEW t \in TrafficStart,
           CoreNext, ManagerNext, TrafficPort(inj, t)
    PROVE  /\ {pending', accepted', install_done', cfg_done'} \subseteq BOOLEAN
           /\ material_q' \in Material \cup {None}
           /\ mgr' \in {"IDLE", "CFG", "BUSY", "RESPONSE"}
           /\ mgr_req' \in Traffic \cup {None} /\ request' \in Traffic \cup {None}
           /\ table' \in [Slot -> Ciphertext \cup {None}]
           /\ {req_pending', inflight', done_q'} \subseteq BOOLEAN
           /\ mgr_clocks' \in Nat
           /\ mgr' \in {"CFG", "BUSY"} => mgr_clocks' > 0
           /\ pending' \/ mgr' = "CFG" => material_q' # None
           /\ req_pending' \/ inflight' => request' # None
           /\ mgr' = "BUSY" => mgr_req' # None
<1> USE DEF FaultInv
<1>1. {pending', accepted', install_done', cfg_done'} \subseteq BOOLEAN
  BY DEF CoreNext, install_req, ManagerNext, Registers, TypeOK
<1>6. /\ material_q' \in Material \cup {None}
      /\ pending' => material_q' # None
      /\ material_q # None => material_q' # None
  <2>1. install_req => [slot |-> hs.slot, ct |-> hs.ct] \in Material
    BY DEF install_req, Registers, Handshake, Material
  <2> QED
    BY <2>1, NoneAssumption DEF CoreNext, Registers, TypeOK
<1>2. /\ mgr' \in {"IDLE", "CFG", "BUSY", "RESPONSE"}
      /\ mgr' = "CFG" => material_q # None
      /\ mgr_req' \in Traffic \cup {None}
      /\ mgr' = "BUSY" => mgr_req' # None
  BY DEF ManagerNext, Registers, TypeOK
<1>3. mgr_clocks' \in Nat /\ (mgr' \in {"CFG", "BUSY"} => mgr_clocks' > 0)
  BY TopAssumption DEF ManagerNext, Registers
<1>4. table' \in [Slot -> Ciphertext \cup {None}]
  BY DEF ManagerNext, Registers, TypeOK, Material
<1>5. /\ {req_pending', inflight', done_q'} \subseteq BOOLEAN
      /\ request' \in Traffic \cup {None}
      /\ req_pending' \/ inflight' => request' # None
  <2>1. t # None => t \in [slot : Slot, genuine : BOOLEAN]
    BY DEF TrafficStart
  <2>2. Token \in {0, 1}
    BY DEF Token, Registers, TypeOK, Traffic
  <2>3. t # None => [slot |-> t.slot, genuine |-> t.genuine, token |-> Token] \in Traffic
    BY <2>1, <2>2 DEF Traffic
  <2> QED
    BY <2>3, NoneAssumption DEF TrafficPort, Registers, TypeOK
<1> QED
  BY <1>1, <1>2, <1>3, <1>4, <1>5, <1>6

\* A clock keeps the count of hashes.
LEMMA CountedKept ==
    ASSUME FaultInv, NEW inj, FsmNext(inj), DecapsNext(inj)
    PROVE  Counted'
<1> USE DEF FaultInv
<1>1. Moves(inj)
  BY Transitions
<1>2. hash_index' = IF state = "IDLE" /\ launch THEN 0
                    ELSE IF hash_start THEN hash_index + 1 ELSE hash_index
  BY DEF FsmNext
<1>3. /\ hash_index \in 0 .. 14 /\ dec_step \in 0 .. 12
      /\ dec_pc \in {"idle", "start", "wait", "done"}
  BY DEF Registers, TypeOK, DECAPS_HASHES
<1>4. hash_start => \/ state = "T_START" \/ state = "K_START"
                    \/ state \notin {"T_START", "K_START"} /\ dec_pc = "start"
  BY DEF hash_start
<1>5. DecapsMoves(inj)
  BY EngineSteps
<1>6. state' \in Deriving => dec_pc' = "idle"
  BY <1>1, <1>3, <1>5 DEF Moves, DecapsMoves, Counted, Deriving, core_done
<1>7. /\ dec_pc' \in {"start", "wait"} => dec_step' < 12
      /\ dec_pc' = "done" => dec_step' = 12
      /\ dec_pc' # "idle" => hash_index' <= Asked'
  BY <1>2, <1>3, <1>4, <1>5 DEF DecapsMoves, Counted, Asked, Deriving, DECAPS_HASHES
<1>8. /\ state' = "D_START" => hash_index' = 0
      /\ state' \in {"T_GUARD", "T_START"} => hash_index' <= 12
      /\ state' \in {"T_WAIT", "K_GUARD", "K_START"} => hash_index' <= 13
  BY <1>1, <1>2, <1>3, <1>4 DEF Moves, Counted, Deriving, Asked, core_done, DECAPS_HASHES
<1> QED
  BY <1>6, <1>7, <1>8 DEF Counted, DECAPS_HASHES

\* A clock keeps what was compared the same as what is stored.
LEMMA ComparedKept ==
    ASSUME FaultInv, NEW inj, FsmNext(inj)
    PROVE  Compared'
<1> USE DEF FaultInv
<1>1. Moves(inj)
  BY Transitions
<1>2. /\ ss_match' = ss_agree
      /\ transcript_match' = transcript_agree
      /\ material_match' = material_agree
      /\ state # "D_WAIT" => ss_agree' = ss_agree
      /\ state # "T_WAIT" => transcript_agree' = transcript_agree
      /\ state # "K_WAIT" => material_agree' = material_agree
  BY DEF FsmNext, Registers, TypeOK
<1>3. state = "T_START" /\ hash_start => ss_match
  BY DEF hash_start
<1>4. state = "K_START" /\ hash_start => transcript_match
  BY DEF hash_start
<1>5. install_req => material_match
  BY DEF install_req
<1> QED
  BY <1>1, <1>2, <1>3, <1>4, <1>5 DEF Moves, Compared, Deriving

\* A clock keeps a rejection, or the fault that stands for it.
LEMMA RejectedKept ==
    ASSUME FaultInv, NEW inj, NEW h \in HandshakeStart,
           FsmNext(inj), DecapsNext(inj), HandshakePort(h)
    PROVE  Rejected'
<1> USE DEF FaultInv
<1>1. Moves(inj)
  BY Transitions
<1>2. DecapsMoves(inj) /\ RejectMoves(inj)
  BY EngineSteps
<1>3. state # "IDLE" => hs' = hs
  BY DEF HandshakeStart, HandshakePort
<1>4. /\ dec_pc \in {"idle", "start", "wait", "done"} /\ dec_step \in 0 .. 12
      /\ hash_index \in 0 .. 14 /\ fault_detected \in BOOLEAN /\ dec_fail \in BOOLEAN
  BY DEF Registers, TypeOK, DECAPS_HASHES
<1>5. state' \in Deriving => ~dec_fail'
  BY <1>1, <1>2, <1>4 DEF Moves, RejectMoves, Rejected, Deriving, Counted, core_done
<1>6. ASSUME state' = "D_WAIT", dec_pc' # "idle", dec_step' >= 11, hs'.tampered, ~dec_fail'
      PROVE  hash_index' <= IF dec_pc' = "start" THEN 0 ELSE 1
  <2>1. state \in {"D_START", "D_WAIT"} /\ hs' = hs
    BY <1>1, <1>3, <1>6 DEF Moves
  <2>2. /\ hash_index' = IF hash_start THEN hash_index + 1 ELSE hash_index
        /\ hash_start <=> dec_pc = "start"
    BY <2>1 DEF FsmNext, hash_start
  <2>3. CASE state = "D_START"
    <3>1. hash_index = 0 /\ (dec_pc = "start" => dec_pc' = "wait")
      BY <1>2, <2>3 DEF Counted, DecapsMoves
    <3>2. hash_index' = IF dec_pc = "start" THEN 1 ELSE 0
      BY <2>2, <3>1
    <3> QED
      BY <3>1, <3>2
  <2>4. CASE state = "D_WAIT"
    <3>1. dec_pc \in {"start", "wait"}
      BY <1>2, <1>4, <1>6, <2>4 DEF DecapsMoves
    <3>2. dec_step >= 11 /\ ~dec_fail
      BY <1>2, <1>4, <1>6, <2>1, <3>1 DEF DecapsMoves, RejectMoves
    <3>3. hash_index <= IF dec_pc = "start" THEN 0 ELSE 1
      BY <1>6, <2>1, <2>4, <3>1, <3>2 DEF Rejected, DECAPS_HASHES
    <3>4. dec_pc' # "start"
      BY <1>2, <1>4, <3>1, <3>2 DEF DecapsMoves, Counted, DECAPS_HASHES
    <3> QED
      BY <1>4, <2>2, <3>1, <3>3, <3>4
  <2> QED
    BY <2>1, <2>3, <2>4
<1>7. state' \in Deriving => fault_detected' \/ ~hs'.tampered
  <2>1. state' \in Deriving => state \in {"D_WAIT"} \cup Deriving
    BY <1>1 DEF Moves, Deriving
  <2>2. state \in {"D_WAIT"} \cup Deriving =>
          /\ hs' = hs
          /\ fault_detected => fault_detected'
    BY <1>3 DEF FsmNext, Deriving
  <2>3. state = "D_WAIT" /\ state' \in Deriving => fault_detected' \/ ~hs'.tampered
    <3>1. SUFFICES ASSUME state = "D_WAIT", state' \in Deriving, hs.tampered
                   PROVE  fault_detected'
      BY <1>3
    <3>2. core_done /\ ~dec_fail
      BY <1>1, <3>1 DEF Moves, Deriving
    <3>3. hash_index <= 1
      BY <3>1, <3>2 DEF Rejected, core_done, Counted, DECAPS_HASHES
    <3>4. FaultRaised(inj, stage_timer >= MAX_STAGE_CYCLES - 1)
      BY <1>4, <3>1, <3>2, <3>3 DEF FaultRaised
    <3> QED
      BY <3>1, <3>4 DEF FsmNext
  <2> QED
    BY <2>1, <2>2, <2>3 DEF Rejected
<1> QED
  BY <1>5, <1>6, <1>7 DEF Rejected, DECAPS_HASHES

\* What holds at the start.
LEMMA InitFault == Init => FaultInv
<1> SUFFICES ASSUME Init
             PROVE  FaultInv
  OBVIOUS
<1> USE DEF Init
<1>3. TypeOK
  <2>1. /\ "IDLE" \in FsmState /\ 0 \in 0 .. MAX_STAGE_CYCLES /\ 0 \in 0 .. 14
        /\ 0 \in 0 .. DECAPS_HASHES
    BY TopAssumption DEF FsmState, DECAPS_HASHES
  <2>2. table \in [Slot -> Ciphertext \cup {None}]
    OBVIOUS
  <2> QED
    BY <2>1, <2>2 DEF TypeOK
<1>1. Registers
  BY <1>3 DEF Registers
<1>2. Counted /\ Compared /\ Rejected
  BY DEF Counted, Compared, Rejected, Asked, Deriving
<1> QED
  BY <1>1, <1>2 DEF FaultInv

\* What one clock does, with its inputs named.
ClockInputs(inj, h, t) ==
    /\ FsmNext(inj) /\ DecapsNext(inj) /\ HandshakePort(h)
    /\ CoreNext /\ ManagerNext /\ TrafficPort(inj, t)

\* A clock keeps FaultInv, whatever its inputs.
LEMMA KeepFault ==
    ASSUME FaultInv, NEW inj, NEW h \in HandshakeStart, NEW t \in TrafficStart,
           ClockInputs(inj, h, t)
    PROVE  FaultInv'
<1> USE DEF ClockInputs
<1>5. TypeOK'
  <2>1. /\ state' \in FsmState /\ prev_state' = state /\ state \in FsmState
        /\ stage_timer' \in 0 .. MAX_STAGE_CYCLES /\ hash_index' \in 0 .. 14
        /\ {ss_agree', transcript_agree', material_agree', ss_match', transcript_match',
            material_match', fault_detected', outstanding'} \subseteq BOOLEAN
    BY FsmRegisters DEF FaultInv, Registers, TypeOK
  <2>2. /\ dec_pc' \in {"idle", "start", "wait", "done"}
        /\ dec_step' \in 0 .. DECAPS_HASHES
        /\ {dec_fail', hash_done', launch', hs_done', hs_fail'} \subseteq BOOLEAN
        /\ hs' \in Handshake \cup {None}
    BY DecapsRegisters
  <2>3. /\ {pending', accepted', install_done', cfg_done'} \subseteq BOOLEAN
        /\ material_q' \in Material \cup {None}
        /\ mgr' \in {"IDLE", "CFG", "BUSY", "RESPONSE"}
        /\ mgr_req' \in Traffic \cup {None} /\ request' \in Traffic \cup {None}
        /\ table' \in [Slot -> Ciphertext \cup {None}]
        /\ {req_pending', inflight', done_q'} \subseteq BOOLEAN
    BY TrafficRegisters
  <2> QED
    BY <2>1, <2>2, <2>3 DEF TypeOK
<1>6. /\ mgr_clocks' \in Nat
      /\ mgr' \in {"CFG", "BUSY"} => mgr_clocks' > 0
      /\ pending' \/ mgr' = "CFG" => material_q' # None
      /\ req_pending' \/ inflight' => request' # None
      /\ mgr' = "BUSY" => mgr_req' # None
  BY TrafficRegisters
<1>7. /\ state' # "IDLE" \/ launch' => hs' \in Handshake
      /\ state' = prev_state' /\ state' # "IDLE" => stage_timer' < MAX_STAGE_CYCLES
      /\ state' = "IDLE" => stage_timer' = 0
      /\ state' = "REPORT" => prev_state' # "REPORT"
  BY FsmRegisters, DecapsRegisters
<1>1. Registers'
  BY <1>5, <1>6, <1>7 DEF Registers
<1>2. Counted'
  BY CountedKept
<1>3. Compared'
  BY ComparedKept
<1>4. Rejected'
  BY RejectedKept
<1> QED
  BY <1>1, <1>2, <1>3, <1>4 DEF FaultInv

\* A step that changes nothing keeps FaultInv.
LEMMA StutterFault == FaultInv /\ UNCHANGED vars => FaultInv'
BY DEF vars, fsmVars, decVars, handshakeVars, coreVars, mgrVars, trafficVars, FaultInv,
       Registers, TypeOK, Counted, Asked, Compared, Rejected

\* Whatever faults occur, FaultInv holds.
THEOREM FaultInvariant == Spec => []FaultInv
<1>1. FaultInv /\ [Clock]_vars => FaultInv'
  <2>1. ASSUME FaultInv, Clock
        PROVE  FaultInv'
    <3>1. PICK inj \in FaultKind \cup {None}, h \in HandshakeStart, t \in TrafficStart :
                 ClockInputs(inj, h, t)
      BY <2>1 DEF Clock, ClockInputs
    <3> QED
      BY <2>1, <3>1, KeepFault
  <2> QED
    BY <2>1, StutterFault
<1> QED
  BY <1>1, InitFault, PTL DEF Spec

\* Every register holds a value of its kind, whatever faults occur.
THEOREM TypeCorrect == Spec => []TypeOK
<1>1. FaultInv => TypeOK
  BY DEF FaultInv, Registers
<1> QED
  BY <1>1, FaultInvariant, PTL

\* No installation is under way whose secret, transcript or material was found on
\* rails that disagree, however faults fall and however short a stage is: in each
\* of the guard states the comparison catches up with the value.
THEOREM RailsAgree == Spec => []InstallNeedsAgreement
<1>1. FaultInv => InstallNeedsAgreement
  BY DEF FaultInv, Compared, Deriving, InstallNeedsAgreement
<1> QED
  BY <1>1, FaultInvariant, PTL

-----------------------------------------------------------------------------
(* What holds without made-up responses when an installation fits a stage.   *)

\* What a clock of the manager does, for each of its phases.
ManagerMoves ==
    /\ cfg_done' = (mgr = "CFG" /\ mgr_clocks = 1)
    /\ ~(mgr = "CFG" /\ mgr_clocks = 1) => table' = table
    /\ mgr = "IDLE" /\ pending => mgr' = "CFG" /\ mgr_clocks' = CFG_CLOCKS
    /\ mgr = "IDLE" /\ ~pending /\ req_pending =>
         mgr' = "BUSY" /\ mgr_clocks' = OP_CLOCKS /\ mgr_req' = request
    /\ mgr = "IDLE" /\ ~pending /\ ~req_pending => mgr' = "IDLE"
    /\ mgr \in {"CFG", "BUSY"} /\ mgr_clocks # 1 =>
         mgr' = mgr /\ mgr_clocks' = mgr_clocks - 1 /\ mgr_req' = mgr_req
    /\ mgr = "CFG" /\ mgr_clocks = 1 =>
         mgr' = "IDLE" /\ table' = [table EXCEPT ![material_q.slot] = material_q.ct]
    /\ mgr = "BUSY" /\ mgr_clocks = 1 =>
         mgr' = "RESPONSE" /\ mgr_req' = mgr_req /\ mgr_rsp'.token = mgr_req.token
    /\ mgr = "RESPONSE" /\ inflight => mgr' = "IDLE"
    /\ mgr = "RESPONSE" /\ ~inflight =>
         mgr' = "RESPONSE" /\ mgr_req' = mgr_req /\ mgr_rsp' = mgr_rsp

\* Every clock of the manager is one of these steps.
LEMMA ManagerSteps ==
    ASSUME FaultInv, ManagerNext
    PROVE  ManagerMoves
<1>1. /\ mgr \in {"IDLE", "CFG", "BUSY", "RESPONSE"} /\ mgr_clocks \in Nat
      /\ mgr \in {"CFG", "BUSY"} => mgr_clocks > 0
  BY DEF FaultInv, Registers, TypeOK
<1>2. CASE mgr = "IDLE"
  BY <1>2 DEF ManagerNext, ManagerMoves
<1>3. CASE mgr \in {"CFG", "BUSY"} /\ mgr_clocks # 1
  BY <1>1, <1>3 DEF ManagerNext, ManagerMoves
<1>4. CASE mgr = "CFG" /\ mgr_clocks = 1
  BY <1>4 DEF ManagerNext, ManagerMoves
<1>5. CASE mgr = "BUSY" /\ mgr_clocks = 1
  <2>1. ServeResult(mgr_req).token = mgr_req.token
    BY DEF ServeResult
  <2> QED
    BY <1>5, <2>1 DEF ManagerNext, ManagerMoves
<1>6. CASE mgr = "RESPONSE"
  BY <1>6 DEF ManagerNext, ManagerMoves, rsp_ready
<1> QED
  BY <1>1, <1>2, <1>3, <1>4, <1>5, <1>6

\* Without made-up responses a response is one the manager gives.
LEMMA OnlyRealResponses ==
    ASSUME NoSpurious, NEW inj \in FaultKind \cup {None}
    PROVE  mon_rsp_valid(inj) <=> mgr = "RESPONSE"
<1>1. inj # "spurious"
  BY TopAssumption DEF NoSpurious, FaultName
<1> QED
  BY <1>1 DEF mon_rsp_valid, raw_rsp_valid

\* A clock keeps the front-end, the outstanding bit and the manager in agreement.
LEMMA ServedKept ==
    ASSUME InstallInv, NEW inj \in FaultKind \cup {None}, NEW t \in TrafficStart,
           FsmNext(inj), CoreNext, ManagerNext, TrafficPort(inj, t)
    PROVE  Served'
<1> USE DEF InstallInv
<1>1. ManagerMoves
  BY ManagerSteps
<1>2. /\ mgr \in {"IDLE", "CFG", "BUSY", "RESPONSE"} /\ mgr_clocks \in Nat
      /\ {inflight, req_pending, outstanding, done_q, pending} \subseteq BOOLEAN
      /\ OP_CLOCKS \in Nat /\ CFG_CLOCKS \in Nat
  BY TopAssumption DEF FaultInv, Registers, TypeOK
<1>3. mgr' \in {"BUSY", "RESPONSE"} <=>
         \/ mgr = "IDLE" /\ ~pending /\ req_pending
         \/ mgr = "BUSY"
         \/ mgr = "RESPONSE" /\ ~inflight
  BY <1>1, <1>2 DEF ManagerMoves
<1>4. outstanding' <=> mgr' \in {"BUSY", "RESPONSE"}
  <2>1. outstanding' = IF mgr = "RESPONSE" /\ inflight /\ outstanding THEN FALSE
                       ELSE outstanding \/ (req_pending /\ mgr = "IDLE" /\ ~pending)
    BY DEF FsmNext, raw_rsp_valid, rsp_ready, req_ready
  <2> QED
    BY <1>2, <1>3, <2>1 DEF Served
<1>5. CASE inflight
  <2>1. rsp_valid(inj) <=> mgr = "RESPONSE"
    BY OnlyRealResponses DEF rsp_valid, Served
  <2>2. /\ req_pending' <=> req_pending /\ ~(mgr = "IDLE" /\ ~pending)
        /\ request' = request
        /\ mgr = "RESPONSE" => captured'.token = mgr_rsp.token /\ ~inflight'
        /\ mgr # "RESPONSE" => UNCHANGED <<captured, done_q, inflight>>
    <3>1. req_pending' = (req_pending /\ ~req_ready) /\ request' = request
      BY <1>5 DEF TrafficPort
    <3>2. CASE mgr = "RESPONSE"
      <4>1. /\ captured' = [token |-> mgr_rsp.token,
                             auth |-> mgr_rsp.auth /\ ~fault_detected,
                             error |-> mgr_rsp.error \/ fault_detected]
            /\ inflight' = FALSE
        BY <1>5, <2>1, <3>2, Zenon DEF TrafficPort
      <4>2. captured'.token = mgr_rsp.token
        BY <4>1
      <4> QED
        BY <1>2, <3>1, <3>2, <4>1, <4>2 DEF req_ready
    <3>3. CASE mgr # "RESPONSE"
      BY <1>5, <2>1, <3>1, <3>3 DEF TrafficPort, req_ready
    <3> QED
      BY <3>2, <3>3
  <2>3. /\ inflight' <=> req_pending' \/ mgr' \in {"BUSY", "RESPONSE"}
        /\ req_pending' => mgr' \notin {"BUSY", "RESPONSE"}
    BY <1>2, <1>3, <1>5, <2>2 DEF Served
  <2>4. /\ mgr' \in {"BUSY", "RESPONSE"} => mgr_req' = request'
        /\ mgr' = "RESPONSE" => mgr_rsp'.token = request'.token
    BY <1>1, <1>2, <1>5, <2>2 DEF ManagerMoves, Served
  <2>5. /\ mgr' = "BUSY" => mgr_clocks' <= OP_CLOCKS
        /\ mgr' = "CFG" => mgr_clocks' <= CFG_CLOCKS
    BY <1>1, <1>2 DEF ManagerMoves, Served
  <2>6. AnswerIsForRequest'
    BY <2>2 DEF AnswerIsForRequest, Served
  <2> QED
    BY <1>4, <2>3, <2>4, <2>5, <2>6 DEF Served
<1>6. CASE ~inflight
  <2>1. ~req_pending /\ mgr \notin {"BUSY", "RESPONSE"}
    BY <1>6 DEF Served
  <2>2. \/ req_pending' /\ inflight' /\ ~done_q'
        \/ ~req_pending' /\ UNCHANGED <<request, inflight, done_q, captured>>
    BY <1>6, <2>1 DEF TrafficPort
  <2>3. mgr' \notin {"BUSY", "RESPONSE"}
    BY <1>3, <1>6, <2>1
  <2>4. mgr' = "CFG" => mgr_clocks' <= CFG_CLOCKS
    BY <1>1, <1>2, <2>1 DEF ManagerMoves, Served
  <2>5. AnswerIsForRequest'
    BY <2>2 DEF AnswerIsForRequest, Served
  <2> QED
    BY <1>4, <1>6, <2>2, <2>3, <2>4, <2>5 DEF Served
<1> QED
  BY <1>5, <1>6

\* No fault is found in a clock of an installation, or the one before it, unless the
\* watchdog expires.
LEMMA NoFaultFound ==
    ASSUME InstallInv, NEW inj \in FaultKind \cup {None},
           state = "C_WAIT" \/ (state = "C_START" /\ install_req),
           stage_timer < MAX_STAGE_CYCLES - 1
    PROVE  ~FaultRaised(inj, stage_timer >= MAX_STAGE_CYCLES - 1)
<1> USE DEF InstallInv
<1>1. dec_pc = "idle" /\ ~hash_start /\ ~hash_error(inj)
  BY DEF FaultInv, Counted, Deriving, hash_start, hash_error
<1>2. mon_rsp_valid(inj) => outstanding
  BY OnlyRealResponses DEF Served
<1>3. ~(stage_timer >= MAX_STAGE_CYCLES - 1)
  BY TopAssumption DEF FaultInv, Registers, TypeOK
<1> QED
  BY <1>1, <1>2, <1>3 DEF FaultRaised

\* A clock keeps the time left for an installation.
LEMMA InTimeKept ==
    ASSUME InstallInv, NEW inj \in FaultKind \cup {None},
           FsmNext(inj), CoreNext, ManagerNext
    PROVE  InTime'
<1> USE DEF InstallInv
<1>1. Moves(inj) /\ Watched(inj) /\ ManagerMoves
  BY Transitions, ManagerSteps
<1>2. /\ prev_state' = state
      /\ stage_timer' = IF (state = "IDLE" /\ launch) \/ state # prev_state THEN 0
                        ELSE IF state \in {"IDLE", "REPORT"} THEN stage_timer
                        ELSE stage_timer + 1
  BY DEF FsmNext
<1>3. /\ mgr \in {"IDLE", "CFG", "BUSY", "RESPONSE"} /\ mgr_clocks \in Nat
      /\ mgr \in {"CFG", "BUSY"} => mgr_clocks > 0
      /\ OP_CLOCKS \in Nat \ {0} /\ CFG_CLOCKS \in Nat \ {0}
      /\ stage_timer \in Nat
  BY TopAssumption DEF FaultInv, Registers, TypeOK
<1>4. /\ state' = "C_GUARD" => prev_state' = "K_WAIT"
      /\ state' = "C_START" => stage_timer' = 0 /\ prev_state' = "C_GUARD"
  BY <1>1, <1>2 DEF Moves, InTime
<1>5. ASSUME state' = "C_WAIT", state = "C_START"
      PROVE  stage_timer' = 0 /\ ClocksLeft' <= OP_CLOCKS + CFG_CLOCKS + 4
  <2>1. stage_timer' = 0
    BY <1>2, <1>5 DEF InTime
  <2>2. ~pending /\ ~accepted /\ ~cfg_done /\ ~install_done /\ mgr # "CFG"
    BY <1>5 DEF Installs
  <2>3. ~cfg_done' /\ ~install_done'
    BY <1>1, <2>2 DEF ManagerMoves, CoreNext
  <2>4. \/ mgr' = "IDLE" \/ mgr' = "RESPONSE"
        \/ mgr' = "BUSY" /\ mgr_clocks' \in Nat /\ mgr_clocks' <= OP_CLOCKS
    <3>1. CASE mgr = "IDLE"
      BY <1>1, <1>3, <2>2, <3>1 DEF ManagerMoves
    <3>2. CASE mgr = "BUSY"
      BY <1>1, <1>3, <2>2, <3>2 DEF ManagerMoves, Served
    <3>3. CASE mgr = "RESPONSE"
      BY <1>1, <1>3, <2>2, <3>3 DEF ManagerMoves
    <3> QED
      BY <1>3, <2>2, <3>1, <3>2, <3>3
  <2> QED
    BY <1>3, <2>1, <2>3, <2>4 DEF ClocksLeft
<1>6. ASSUME state' = "C_WAIT", state = "C_WAIT"
      PROVE  stage_timer' + ClocksLeft' <= OP_CLOCKS + CFG_CLOCKS + 3
  <2>1. ~install_done
    BY <1>1, <1>6 DEF Moves
  <2>2. ClocksLeft \in Int /\ ClocksLeft' \in Int /\ ClocksLeft' <= ClocksLeft - 1
    <3>1. CASE Offered
      <4>1. ~install_done' /\ ~cfg_done'
        BY <1>1, <3>1 DEF ManagerMoves, CoreNext, Offered
      <4>2. CASE mgr = "IDLE"
        BY <1>1, <1>3, <3>1, <4>1, <4>2 DEF ManagerMoves, Offered, ClocksLeft
      <4>3. CASE mgr = "BUSY"
        <5>1. CASE mgr_clocks = 1
          BY <1>1, <1>3, <3>1, <4>1, <4>3, <5>1 DEF ManagerMoves, Offered, ClocksLeft
        <5>2. CASE mgr_clocks # 1
          BY <1>1, <1>3, <3>1, <4>1, <4>3, <5>2 DEF ManagerMoves, Offered, ClocksLeft
        <5> QED
          BY <5>1, <5>2
      <4>4. CASE mgr = "RESPONSE"
        <5>1. inflight
          BY <4>4 DEF Served
        <5> QED
          BY <1>1, <1>3, <3>1, <4>1, <4>4, <5>1 DEF ManagerMoves, Offered, ClocksLeft
      <4> QED
        BY <1>3, <3>1, <4>2, <4>3, <4>4 DEF Offered
    <3>2. CASE Writing
      <4>1. ~install_done'
        BY <3>2 DEF CoreNext, Writing
      <4>2. CASE mgr_clocks = 1
        <5>1. cfg_done'
          BY <1>1, <3>2, <4>2 DEF ManagerMoves, Writing
        <5>2. ClocksLeft' = 2 /\ ClocksLeft = 3
          BY <3>2, <4>1, <4>2, <5>1 DEF Writing, ClocksLeft
        <5> QED
          BY <5>2
      <4>3. CASE mgr_clocks # 1
        BY <1>1, <1>3, <3>2, <4>1, <4>3 DEF ManagerMoves, Writing, ClocksLeft
      <4> QED
        BY <4>2, <4>3
    <3>3. CASE Written
      <4>1. install_done'
        BY <3>3 DEF CoreNext, Written
      <4>2. ClocksLeft' = 1 /\ ClocksLeft = 2
        BY <3>3, <4>1 DEF Written, ClocksLeft
      <4> QED
        BY <4>2
    <3> QED
      BY <1>6, <2>1, <3>1, <3>2, <3>3 DEF Installs, Confirmed
  <2>3. prev_state # "C_WAIT" => stage_timer' = 0
    BY <1>2, <1>6
  <2>4. prev_state = "C_WAIT" => stage_timer' = stage_timer + 1
    BY <1>2, <1>6
  <2> QED
    BY <1>3, <1>6, <2>2, <2>3, <2>4 DEF InTime
<1>7. state' = "C_WAIT" => state \in {"C_START", "C_WAIT"}
  BY <1>1 DEF Moves
<1> QED
  BY <1>2, <1>4, <1>5, <1>6, <1>7 DEF InTime

\* A clock keeps the installation to C_WAIT, to its material and to its table.
LEMMA InstallsKept ==
    ASSUME InstallInv, NEW inj \in FaultKind \cup {None}, NEW h \in HandshakeStart,
           FsmNext(inj), DecapsNext(inj), HandshakePort(h), CoreNext, ManagerNext
    PROVE  Installs'
<1> USE DEF InstallInv
<1>1. /\ Moves(inj) /\ Watched(inj) /\ ManagerMoves
      /\ DecapsMoves(inj) /\ RejectMoves(inj)
  BY Transitions, ManagerSteps, EngineSteps
<1>2. /\ state # "IDLE" => hs' = hs /\ launch_table' = launch_table
      /\ ~launch => launch_table' = launch_table
      /\ launch /\ state = "IDLE" => launch_table' = table
  BY DEF HandshakeStart, HandshakePort, FsmNext
<1>3. /\ mgr \in {"IDLE", "CFG", "BUSY", "RESPONSE"} /\ mgr_clocks \in Nat
      /\ MAX_STAGE_CYCLES \in Nat \ {0, 1} /\ stage_timer \in Nat
      /\ OP_CLOCKS \in Nat \ {0} /\ CFG_CLOCKS \in Nat \ {0}
      /\ {fault_detected, dec_fail, pending, accepted} \subseteq BOOLEAN
      /\ table \in [Slot -> Ciphertext \cup {None}]
  BY TopAssumption DEF FaultInv, Registers, TypeOK
<1>4. FaultRaised(inj, stage_timer >= MAX_STAGE_CYCLES - 1) /\ state # "IDLE"
        => fault_detected'
  BY DEF FsmNext
<1>5. install_req => state = "C_START" /\ state' = "C_WAIT"
  BY <1>1 DEF install_req, Moves
<1>6. CASE state # "C_WAIT"
  <2>1. /\ ~pending /\ ~accepted /\ ~cfg_done /\ ~install_done /\ mgr # "CFG"
        /\ table' = table
    BY <1>1, <1>6 DEF Installs, ManagerMoves
  <2>2. ~accepted' /\ ~cfg_done' /\ ~install_done' /\ mgr' # "CFG"
    BY <1>1, <1>3, <2>1 DEF CoreNext, ManagerMoves
  <2>3. pending' <=> install_req
    BY <2>1 DEF CoreNext
  <2>4. state' # "C_WAIT" => ~pending'
    BY <1>5, <2>3
  <2>5. ASSUME state' = "C_WAIT"
        PROVE  /\ ~fault_detected'
               /\ material_q' = [slot |-> hs'.slot, ct |-> hs'.ct]
               /\ Offered'
    <3>1. state = "C_START" /\ install_req
      BY <1>1, <1>6, <2>5 DEF Moves
    <3>2. stage_timer < MAX_STAGE_CYCLES - 1 /\ ~fault_detected
      BY <1>3, <3>1 DEF InTime, install_req
    <3>3. ~FaultRaised(inj, stage_timer >= MAX_STAGE_CYCLES - 1)
      BY <3>1, <3>2, NoFaultFound
    <3>4. ~fault_detected'
      BY <3>2, <3>3 DEF FsmNext
    <3>5. table = launch_table
      BY <3>1 DEF Installs
    <3>6. material_q' = [slot |-> hs'.slot, ct |-> hs'.ct]
      BY <1>2, <2>1, <3>1 DEF CoreNext
    <3> QED
      BY <1>2, <2>1, <2>2, <2>3, <3>1, <3>4, <3>5, <3>6 DEF Offered
  <2>6. state' \notin {"IDLE", "C_WAIT", "REPORT"} => table' = launch_table'
    <3>1. state' \notin {"IDLE", "C_WAIT", "REPORT"} /\ state = "IDLE" => launch
      BY <1>1 DEF Moves
    <3>2. state' \notin {"IDLE", "C_WAIT", "REPORT"} => state # "REPORT"
      BY <1>1 DEF Moves
    <3> QED
      BY <1>2, <1>6, <2>1, <3>1, <3>2 DEF Installs
  <2>7. state' = "REPORT" => final_fail' /\ table' = launch_table'
    <3>1. SUFFICES ASSUME state' = "REPORT"
                   PROVE  final_fail' /\ table' = launch_table'
      OBVIOUS
    <3>2. state \notin {"IDLE", "C_WAIT", "REPORT"}
      BY <1>1, <1>6, <3>1 DEF Moves
    <3>3. table' = launch_table'
      BY <1>2, <2>1, <3>2 DEF Installs
    <3>4. CASE state = "D_WAIT" /\ core_done
      <4>1. dec_fail /\ dec_pc = "done"
        BY <1>1, <3>1, <3>4 DEF Moves, core_done
      <4> QED
        BY <1>1, <3>3, <4>1 DEF RejectMoves, final_fail
    <3>5. CASE \/ state = "T_START" /\ ~hash_start
               \/ state = "K_START" /\ ~hash_start
               \/ state = "C_START" /\ ~install_req
      <4>1. fault_detected \/ FaultRaised(inj, stage_timer >= MAX_STAGE_CYCLES - 1)
        BY <3>5 DEF hash_start, FaultRaised
      <4>2. fault_detected'
        BY <3>2, <4>1 DEF FsmNext
      <4> QED
        BY <3>3, <4>2 DEF final_fail
    <3>6. CASE \/ state = "D_WAIT" /\ ~core_done
               \/ state \in {"T_WAIT", "K_WAIT"} /\ ~hdone_ctl(inj)
      <4>1. stage_timer >= MAX_STAGE_CYCLES - 1
        BY <1>1, <1>3, <3>1, <3>6 DEF Watched
      <4>2. fault_detected'
        BY <1>4, <3>2, <4>1 DEF FaultRaised
      <4> QED
        BY <3>3, <4>2 DEF final_fail
    <3> QED
      BY <1>1, <3>1, <3>2, <3>4, <3>5, <3>6 DEF Moves
  <2> QED
    BY <2>2, <2>4, <2>5, <2>6, <2>7 DEF Installs
<1>7. CASE state = "C_WAIT"
  <2>1. /\ ~fault_detected /\ material_q = [slot |-> hs.slot, ct |-> hs.ct]
        /\ Offered \/ Writing \/ Written \/ Confirmed
        /\ hs' = hs /\ launch_table' = launch_table
    BY <1>2, <1>7 DEF Installs
  <2>2. ~hs.tampered /\ ~dec_fail /\ dec_pc = "idle"
    BY <1>7, <2>1 DEF FaultInv, Rejected, Counted, Deriving
  <2>3. ~install_req
    BY <1>7 DEF install_req
  <2>4. material_q' = material_q
    BY <2>3 DEF CoreNext
  <2>5. stage_timer < MAX_STAGE_CYCLES - 1
    <3>1. ClocksLeft \in Int /\ ClocksLeft >= 1
      BY <1>3, <2>1 DEF ClocksLeft, Offered, Writing, Written, Confirmed
    <3> QED
      BY <1>3, <1>7, <3>1 DEF InTime, InstallFits
  <2>6. ~FaultRaised(inj, stage_timer >= MAX_STAGE_CYCLES - 1)
    BY <1>7, <2>5, NoFaultFound
  <2>7. ~fault_detected'
    BY <2>1, <2>6 DEF FsmNext
  <2>8. ~dec_fail'
    BY <1>1, <2>2 DEF RejectMoves
  <2>9. CASE Confirmed
    <3>1. state' = "REPORT"
      BY <1>1, <1>7, <2>9 DEF Moves, Confirmed
    <3>2. ~pending' /\ ~accepted' /\ ~install_done'
      BY <2>3, <2>9 DEF CoreNext, Confirmed
    <3>3. ~cfg_done' /\ mgr' # "CFG" /\ table' = table
      BY <1>1, <1>3, <2>9 DEF ManagerMoves, Confirmed
    <3>4. Installed'
      BY <2>1, <2>9, <3>3 DEF Installed, Confirmed
    <3>5. ~final_fail' /\ ~hs'.tampered
      BY <2>1, <2>2, <2>7, <2>8 DEF final_fail
    <3> QED
      BY <3>1, <3>2, <3>3, <3>4, <3>5 DEF Installs
  <2>10. ASSUME ~Confirmed
         PROVE  state' = "C_WAIT" /\ (Offered' \/ Writing' \/ Written' \/ Confirmed')
    <3>1. ~install_done
      BY <2>1, <2>10 DEF Offered, Writing, Written
    <3>2. state' = "C_WAIT"
      BY <1>1, <1>7, <2>5, <3>1 DEF Watched
    <3>3. CASE Offered
      <4>1. ~install_done' /\ ~cfg_done' /\ table' = table
        BY <1>1, <3>3 DEF Offered, CoreNext, ManagerMoves
      <4>2. CASE mgr = "IDLE"
        <5>1. ~pending' /\ accepted' /\ mgr' = "CFG"
          BY <1>1, <3>3, <4>2 DEF Offered, CoreNext, ManagerMoves
        <5> QED
          BY <2>1, <3>2, <3>3, <4>1, <5>1 DEF Offered, Writing
      <4>3. CASE mgr # "IDLE"
        <5>1. pending' /\ ~accepted'
          BY <3>3, <4>3 DEF Offered, CoreNext
        <5>2. mgr' # "CFG"
          BY <1>1, <1>3, <3>3, <4>3 DEF Offered, ManagerMoves
        <5> QED
          BY <2>1, <3>2, <3>3, <4>1, <5>1, <5>2 DEF Offered
      <4> QED
        BY <4>2, <4>3
    <3>4. CASE Writing
      <4>1. ~pending' /\ accepted' /\ ~install_done'
        BY <2>3, <3>4 DEF Writing, CoreNext
      <4>2. CASE mgr_clocks = 1
        <5>1. cfg_done' /\ mgr' = "IDLE"
              /\ table' = [table EXCEPT ![material_q.slot] = material_q.ct]
          BY <1>1, <3>4, <4>2 DEF Writing, ManagerMoves
        <5>2. Installed'
          BY <2>1, <3>4, <5>1 DEF Writing, Installed
        <5> QED
          BY <3>2, <4>1, <5>1, <5>2 DEF Written
      <4>3. CASE mgr_clocks # 1
        <5>1. ~cfg_done' /\ mgr' = "CFG" /\ table' = table
          BY <1>1, <3>4, <4>3 DEF Writing, ManagerMoves
        <5> QED
          BY <2>1, <3>2, <3>4, <4>1, <5>1 DEF Writing
      <4> QED
        BY <4>2, <4>3
    <3>5. CASE Written
      <4>1. ~pending' /\ ~accepted' /\ install_done'
        BY <2>3, <3>5 DEF Written, CoreNext
      <4>2. ~cfg_done' /\ mgr' # "CFG" /\ table' = table
        BY <1>1, <1>3, <3>5 DEF Written, ManagerMoves
      <4>3. Installed'
        BY <2>1, <3>5, <4>2 DEF Written, Installed
      <4> QED
        BY <3>2, <4>1, <4>2, <4>3 DEF Confirmed
    <3> QED
      BY <2>1, <2>10, <3>3, <3>4, <3>5
  <2> QED
    BY <2>1, <2>4, <2>7, <2>9, <2>10 DEF Installs
<1> QED
  BY <1>6, <1>7

\* What holds at the start.
LEMMA InitInstall == Init /\ NoSpurious /\ InstallFits => InstallInv
<1> SUFFICES ASSUME Init, NoSpurious, InstallFits
             PROVE  InstallInv
  OBVIOUS
<1>1. Served
  BY DEF Init, Served, AnswerIsForRequest
<1>2. InTime /\ Installs
  BY DEF Init, InTime, Installs
<1> QED
  BY <1>1, <1>2, InitFault DEF InstallInv

\* A clock keeps InstallInv, whatever its inputs.
LEMMA KeepInstall ==
    ASSUME InstallInv, NEW inj \in FaultKind \cup {None}, NEW h \in HandshakeStart,
           NEW t \in TrafficStart, ClockInputs(inj, h, t)
    PROVE  InstallInv'
<1> USE DEF ClockInputs
<1>1. FaultInv'
  BY KeepFault DEF InstallInv
<1>2. Served'
  BY ServedKept
<1>3. InTime'
  BY InTimeKept
<1>4. Installs'
  BY InstallsKept
<1> QED
  BY <1>1, <1>2, <1>3, <1>4 DEF InstallInv, NoSpurious, InstallFits

\* A step that changes nothing keeps InstallInv.
LEMMA StutterInstall == InstallInv /\ UNCHANGED vars => InstallInv'
<1> SUFFICES ASSUME InstallInv, UNCHANGED vars
             PROVE  InstallInv'
  OBVIOUS
<1>1. FaultInv'
  BY StutterFault DEF InstallInv
<1> USE DEF vars, fsmVars, decVars, handshakeVars, coreVars, mgrVars, trafficVars, InstallInv
<1>2. Served'
  BY DEF Served, AnswerIsForRequest
<1>3. InTime'
  BY DEF InTime, ClocksLeft
<1>4. Installs'
  BY DEF Installs, Offered, Writing, Written, Confirmed, Installed, final_fail
<1> QED
  BY <1>1, <1>2, <1>3, <1>4 DEF NoSpurious, InstallFits

\* In builds whose stages outlast an installation, and without made-up responses,
\* InstallInv holds.
THEOREM InstallInvariant == NoSpurious /\ InstallFits => (Spec => []InstallInv)
<1>1. InstallInv /\ [Clock]_vars => InstallInv'
  <2>1. ASSUME InstallInv, Clock
        PROVE  InstallInv'
    <3>1. PICK inj \in FaultKind \cup {None}, h \in HandshakeStart, t \in TrafficStart :
                 ClockInputs(inj, h, t)
      BY <2>1 DEF Clock, ClockInputs
    <3> QED
      BY <2>1, <3>1, KeepInstall
  <2> QED
    BY <2>1, StutterInstall
<1> QED
  BY <1>1, InitInstall, PTL DEF Spec

\* A failed handshake has installed nothing and leaves nothing behind that still
\* could be, in every build whose stages outlast an installation, if no response
\* pulse is made up.
THEOREM FailureInstallsNothing ==
    NoSpurious /\ InstallFits => (Spec => []FailedHandshakeInstallsNothing)
<1>1. InstallInv => FailedHandshakeInstallsNothing
  BY DEF InstallInv, Installs, FailedHandshakeInstallsNothing
<1> QED
  BY <1>1, InstallInvariant, PTL

\* A successful handshake was not tampered with and has installed its own material
\* in its own slot, and nothing else, in the same builds.
THEOREM SuccessInstallsItsOwn ==
    NoSpurious /\ InstallFits => (Spec => []SuccessInstallsItsMaterial)
<1>1. InstallInv => SuccessInstallsItsMaterial
  BY DEF InstallInv, Installs, Installed, SuccessInstallsItsMaterial
<1> QED
  BY <1>1, InstallInvariant, PTL

\* The answer the processor reads is the answer to its last request, in the same builds.
THEOREM AnswersMatch ==
    NoSpurious /\ InstallFits => (Spec => []AnswerIsForRequest)
<1>1. InstallInv => AnswerIsForRequest
  BY DEF InstallInv, Served
<1> QED
  BY <1>1, InstallInvariant, PTL

-----------------------------------------------------------------------------
(* What holds when completions are not lost either.                          *)

\* The engine asks for its hashes in the order the protection expects.
LEMMA Schedule ==
    \A i \in 0 .. 11 : decaps_command(i) = expected_hash(i)
<1> SUFFICES ASSUME NEW i \in 0 .. 11
             PROVE  decaps_command(i) = expected_hash(i)
  OBVIOUS
<1>1. CASE i \in {0, 1}
  BY <1>1 DEF decaps_command, expected_hash
<1>2. CASE i \in {2, 3, 4, 5, 6}
  BY <1>2 DEF decaps_command, expected_hash
<1>3. CASE i \in {7, 8, 9, 10, 11}
  BY <1>3 DEF decaps_command, expected_hash
<1> QED
  BY <1>1, <1>2, <1>3

\* A hash whose completion is not lost is seen to complete.
LEMMA CompletionSeen ==
    ASSUME NoStall, NEW inj \in FaultKind \cup {None}
    PROVE  hdone_ctl(inj) <=> hash_done
BY TopAssumption DEF NoStall, FaultName, hdone_ctl

\* A clock keeps the schedule of the handshake.
LEMMA OnScheduleKept ==
    ASSUME CleanInv, NEW inj \in FaultKind \cup {None}, FsmNext(inj), DecapsNext(inj)
    PROVE  OnSchedule'
<1> USE DEF CleanInv, InstallInv
<1>1. Moves(inj) /\ Watched(inj) /\ DecapsMoves(inj)
  BY Transitions, EngineSteps
<1>2. /\ prev_state' = state
      /\ stage_timer' = IF (state = "IDLE" /\ launch) \/ state # prev_state THEN 0
                        ELSE IF state \in {"IDLE", "REPORT"} THEN stage_timer
                        ELSE stage_timer + 1
      /\ hash_index' = IF state = "IDLE" /\ launch THEN 0
                       ELSE IF hash_start THEN hash_index + 1 ELSE hash_index
  BY DEF FsmNext
<1>3. /\ dec_pc \in {"idle", "start", "wait", "done"} /\ dec_step \in 0 .. 12
      /\ MAX_STAGE_CYCLES \in Nat /\ MAX_STAGE_CYCLES >= 26
      /\ stage_timer \in Nat /\ hash_index \in Nat
      /\ dec_pc \in {"start", "wait"} => dec_step < 12
      /\ dec_pc = "done" => dec_step = 12
  BY TopAssumption DEF FaultInv, Registers, TypeOK, DecapsFits, DECAPS_HASHES, Counted
<1>4. hdone_ctl(inj) <=> hash_done
  BY CompletionSeen
<1>5. /\ dec_pc = "wait" => hdone_ctl(inj)
      /\ state \in {"T_WAIT", "K_WAIT"} => hdone_ctl(inj)
  BY <1>4 DEF OnSchedule
<1>6. CASE state = "D_WAIT"
  <2>1. dec_pc # "idle"
    BY <1>6 DEF OnSchedule
  <2>2. hash_start <=> dec_pc = "start"
    BY <1>6 DEF hash_start
  <2>3. stage_timer < MAX_STAGE_CYCLES - 1
    BY <1>3, <1>6 DEF OnSchedule, Asked
  <2>4. CASE dec_pc = "done"
    <3>1. state' \in {"T_GUARD", "REPORT"} /\ dec_pc' = "idle"
      BY <1>1, <1>6, <2>4 DEF Moves, DecapsMoves, core_done
    <3>2. hash_index' = 12
      BY <1>2, <1>3, <1>6, <2>2, <2>4 DEF OnSchedule, Asked
    <3>3. stage_timer' <= 24
      BY <1>2, <1>3, <1>6, <2>4 DEF OnSchedule, Asked
    <3> QED
      BY <1>2, <1>6, <3>1, <3>2, <3>3 DEF OnSchedule, Deriving, DECAPS_HASHES
  <2>5. CASE dec_pc = "start"
    <3>1. state' = "D_WAIT" /\ dec_pc' = "wait" /\ dec_step' = dec_step /\ hash_done'
      BY <1>1, <1>6, <2>2, <2>3, <2>5 DEF Watched, DecapsMoves, core_done
    <3>2. hash_index' = Asked'
      BY <1>2, <1>3, <1>6, <2>2, <2>5, <3>1 DEF OnSchedule, Asked
    <3>3. stage_timer' + 1 = dec_step' + Asked'
      BY <1>2, <1>3, <1>6, <2>5, <3>1 DEF OnSchedule, Asked
    <3> QED
      BY <1>2, <1>6, <3>1, <3>2, <3>3 DEF OnSchedule, Deriving
  <2>6. CASE dec_pc = "wait"
    <3>1. /\ state' = "D_WAIT" /\ dec_pc' \in {"start", "done"}
          /\ dec_step' = dec_step + 1
      BY <1>1, <1>5, <1>6, <2>3, <2>6 DEF Watched, DecapsMoves, core_done
    <3>2. hash_index' = Asked'
      BY <1>2, <1>3, <1>6, <2>2, <2>6, <3>1 DEF OnSchedule, Asked
    <3>3. stage_timer' + 1 = dec_step' + Asked'
      BY <1>2, <1>3, <1>6, <2>6, <3>1 DEF OnSchedule, Asked
    <3> QED
      BY <1>2, <1>6, <3>1, <3>2, <3>3 DEF OnSchedule, Deriving
  <2> QED
    BY <1>3, <2>1, <2>4, <2>5, <2>6
<1>7. CASE state # "D_WAIT"
  <2>1. dec_pc = "idle" /\ dec_step' = 0
    BY <1>1, <1>3, <1>7 DEF OnSchedule, DecapsMoves
  <2>2. hash_start => state \in {"T_START", "K_START"}
    BY <2>1 DEF hash_start
  <2>3. /\ state' = "D_WAIT" <=> state = "D_START"
        /\ dec_pc' = IF state = "D_START" THEN "start" ELSE "idle"
    BY <1>1, <1>7, <2>1 DEF Moves, DecapsMoves
  <2>4. CASE state = "D_START"
    <3>1. hash_index = 0 /\ stage_timer' = 0 /\ ~hash_start
      BY <1>2, <2>2, <2>4 DEF FaultInv, Counted, OnSchedule
    <3> QED
      BY <1>2, <2>1, <2>3, <2>4, <3>1 DEF OnSchedule, Asked, Deriving
  <2>5. CASE state # "D_START"
    <3>1. state' # "D_WAIT" /\ dec_pc' = "idle"
      BY <2>3, <2>5
    <3>2. state' \in (Deriving \ {"C_WAIT"}) \cup {"D_START"} =>
             prev_state' # state' /\ state' # "T_GUARD"
      BY <1>1, <1>2, <1>5, <1>7 DEF Moves, Deriving
    <3>3. state' \in (Deriving \ {"C_WAIT"}) \cup {"D_START"} => stage_timer' = 0
      <4>1. state' = "D_START" => state = "IDLE" /\ launch
        BY <1>1 DEF Moves
      <4>2. state' \in Deriving \ {"C_WAIT"} => state \in Deriving \ {"C_WAIT"}
        BY <1>1, <1>7 DEF Moves, Deriving
      <4> QED
        BY <1>2, <4>1, <4>2 DEF OnSchedule
    <3>4. state' \in {"T_WAIT", "K_WAIT"} => hash_done'
      BY <1>1, <1>5 DEF Moves, DecapsMoves
    <3>5. /\ state' \in {"T_GUARD", "T_START"} => hash_index' = 12
          /\ state' \in {"T_WAIT", "K_GUARD", "K_START"} => hash_index' = 13
          /\ state' \in {"K_WAIT", "C_GUARD", "C_START", "C_WAIT"} => hash_index' = 14
      BY <1>1, <1>2, <1>3, <1>5, <1>7, <2>2, <2>5 DEF Moves, OnSchedule
    <3> QED
      BY <3>1, <3>2, <3>3, <3>4, <3>5 DEF OnSchedule, Deriving
  <2> QED
    BY <2>4, <2>5
<1> QED
  BY <1>6, <1>7

\* No fault is found in a clock of a handshake in which none is injected and in
\* which none was injected before.
LEMMA NoFaultWhenClean ==
    ASSUME CleanInv, clean, FsmNext(None), state \notin {"IDLE", "REPORT"}
    PROVE  ~fault_detected'
<1> USE DEF CleanInv, InstallInv
<1>1. /\ MAX_STAGE_CYCLES \in Nat /\ MAX_STAGE_CYCLES >= 26
      /\ stage_timer \in Nat /\ dec_step \in 0 .. 12 /\ hash_index \in 0 .. 14
      /\ dec_pc \in {"idle", "start", "wait", "done"} /\ state \in FsmState
      /\ dec_pc = "start" => dec_step < 12
      /\ None \notin FaultName
      /\ OP_CLOCKS \in Nat /\ CFG_CLOCKS \in Nat /\ mgr_clocks \in Nat
      /\ mgr \in {"IDLE", "CFG", "BUSY", "RESPONSE"}
  BY TopAssumption DEF FaultInv, Registers, TypeOK, DecapsFits, DECAPS_HASHES, Counted
<1>2. ~fault_detected
  BY DEF Untroubled
<1>3. ~(stage_timer >= MAX_STAGE_CYCLES - 1)
  <2>1. CASE state = "D_WAIT"
    BY <1>1, <2>1 DEF OnSchedule, Asked
  <2>2. CASE state = "C_WAIT"
    <3>1. ClocksLeft \in Int /\ ClocksLeft >= 1
      BY <1>1, <2>2 DEF Installs, ClocksLeft, Offered, Writing, Written, Confirmed
    <3> QED
      BY <1>1, <2>2, <3>1 DEF InTime, InstallFits
  <2>3. CASE state = "T_GUARD"
    BY <1>1, <2>3 DEF OnSchedule, DECAPS_HASHES
  <2>4. CASE state \in (Deriving \ {"T_GUARD", "C_WAIT"}) \cup {"D_START"}
    BY <1>1, <2>4 DEF OnSchedule
  <2> QED
    BY <1>1, <2>1, <2>2, <2>3, <2>4 DEF FsmState, Deriving
<1>4. hash_start => hash_index < 14 /\ hash_command(None) = expected_hash(hash_index)
  <2>1. CASE state = "T_START"
    <3>1. hash_command(None) = 5 /\ hash_index = 12
      BY <1>1, <2>1 DEF hash_command, FaultName, OnSchedule
    <3> QED
      BY <3>1 DEF expected_hash
  <2>2. CASE state = "K_START"
    <3>1. hash_command(None) = 6 /\ hash_index = 13
      BY <1>1, <2>2 DEF hash_command, FaultName, OnSchedule
    <3> QED
      BY <3>1 DEF expected_hash
  <2>3. CASE hash_start /\ state \notin {"T_START", "K_START"}
    <3>1. dec_pc = "start" /\ state = "D_WAIT"
      BY <2>3 DEF hash_start, OnSchedule
    <3>2. hash_index = dec_step /\ dec_step \in 0 .. 11
      BY <1>1, <3>1 DEF OnSchedule, Asked
    <3>3. hash_command(None) = decaps_command(dec_step)
      BY <1>1, <2>3 DEF hash_command, FaultName
    <3> QED
      BY <3>2, <3>3, Schedule
  <2> QED
    BY <2>1, <2>2, <2>3
<1>5. ~hash_error(None)
  BY <1>1 DEF hash_error, FaultName
<1>6. mon_rsp_valid(None) => outstanding
  BY OnlyRealResponses DEF Served
<1>7. ~(state = "D_WAIT" /\ core_done /\ hash_index # 12)
  BY <1>1 DEF OnSchedule, core_done, Asked, FaultInv, Counted, DECAPS_HASHES
<1>8. /\ state = "T_START" => ss_match
      /\ state = "K_START" => transcript_match
      /\ state = "C_START" => install_req
  BY <1>2 DEF FaultInv, Compared, Untroubled, Deriving, install_req, OnSchedule
<1>9. ~FaultRaised(None, stage_timer >= MAX_STAGE_CYCLES - 1)
  <2>1. ~(hash_start /\ (hash_index >= 14 \/ hash_command(None) # expected_hash(hash_index)))
    BY <1>1, <1>4
  <2> QED
    BY <2>1, <1>3, <1>5, <1>6, <1>7, <1>8 DEF FaultRaised
<1> QED
  BY <1>2, <1>9 DEF FsmNext

\* A clock keeps a clean handshake free of trouble.
LEMMA UntroubledKept ==
    ASSUME CleanInv, NEW inj \in FaultKind \cup {None}, NEW h \in HandshakeStart,
           FsmNext(inj), DecapsNext(inj), HandshakePort(h)
    PROVE  Untroubled'
<1> USE DEF CleanInv, InstallInv
<1>1. Moves(inj) /\ RejectMoves(inj)
  BY Transitions, EngineSteps
<1>2. SUFFICES ASSUME clean'
               PROVE  Untroubled'
  BY DEF Untroubled
<1>3. inj = None /\ ((state = "IDLE" /\ launch) \/ clean)
  BY <1>2 DEF FsmNext
<1>4. None \notin FaultName /\ FsmNext(None)
  BY <1>3, TopAssumption
<1>5. state' # "IDLE" => ~fault_detected'
  <2>1. CASE state = "IDLE"
    BY <1>1, <2>1 DEF Moves, FsmNext
  <2>2. CASE state \notin {"IDLE", "REPORT"}
    BY <1>3, <1>4, <2>2, NoFaultWhenClean
  <2>3. CASE state = "REPORT"
    BY <1>1, <2>3 DEF Moves
  <2> QED
    BY <2>1, <2>2, <2>3
<1>6. state' \in {"D_WAIT", "REPORT"} => (dec_fail' => hs'.tampered)
  <2>1. SUFFICES ASSUME state' \in {"D_WAIT", "REPORT"}, dec_fail'
                 PROVE  hs'.tampered
    OBVIOUS
  <2>2. /\ state \notin {"IDLE", "REPORT"} /\ hs' = hs /\ clean
        /\ dec_pc \in {"idle", "start", "wait", "done"} /\ dec_fail \in BOOLEAN
    BY <1>1, <1>3, <2>1 DEF Moves, HandshakeStart, HandshakePort, FaultInv, Registers, TypeOK
  <2>3. ~hash_error(inj)
    BY <1>3, <1>4 DEF hash_error, FaultName
  <2>4. CASE state = "D_START"
    <3>1. dec_pc = "idle"
      BY <2>4 DEF OnSchedule
    <3> QED
      BY <1>1, <2>1, <2>4, <3>1 DEF RejectMoves
  <2>5. CASE state = "D_WAIT"
    BY <1>1, <2>1, <2>2, <2>3, <2>5 DEF RejectMoves, Untroubled
  <2>6. CASE state \in Deriving
    <3>1. dec_pc = "idle" /\ ~dec_fail
      BY <2>6 DEF FaultInv, Counted, Rejected
    <3> QED
      BY <1>1, <2>1, <3>1 DEF RejectMoves
  <2> QED
    BY <2>2, <2>4, <2>5, <2>6 DEF FaultInv, Registers, TypeOK, FsmState, Deriving
<1>7. /\ state' \in Deriving => ss_agree'
      /\ state' \in {"K_GUARD", "K_START"} => transcript_agree'
      /\ state' \in {"C_GUARD", "C_START"} => material_agree'
  <2>1. state' \in Deriving => clean /\ state # "IDLE"
    BY <1>1, <1>3 DEF Moves, Deriving
  <2>2. /\ ss_agree' = IF state = "D_WAIT" /\ core_done THEN TRUE ELSE ss_agree
        /\ transcript_agree' = IF state = "T_WAIT" /\ hdone_ctl(inj)
                               THEN TRUE ELSE transcript_agree
        /\ material_agree' = IF state = "K_WAIT" /\ hdone_ctl(inj)
                             THEN TRUE ELSE material_agree
    BY <1>3, <1>4 DEF FsmNext, FaultName
  <2> QED
    BY <1>1, <2>1, <2>2 DEF Moves, Deriving, Untroubled
<1> QED
  BY <1>5, <1>6, <1>7 DEF Untroubled

\* The build in which a clean handshake is sure to succeed.
Reliable == NoSpurious /\ InstallFits /\ NoStall /\ DecapsFits

\* What holds at the start.
LEMMA InitClean == Init /\ Reliable => CleanInv
<1> SUFFICES ASSUME Init, Reliable
             PROVE  CleanInv
  OBVIOUS
<1>1. OnSchedule /\ Untroubled
  BY DEF Init, OnSchedule, Untroubled, Deriving
<1> QED
  BY <1>1, InitInstall DEF CleanInv, Reliable

\* A clock keeps CleanInv, whatever its inputs.
LEMMA KeepClean ==
    ASSUME CleanInv, NEW inj \in FaultKind \cup {None}, NEW h \in HandshakeStart,
           NEW t \in TrafficStart, ClockInputs(inj, h, t)
    PROVE  CleanInv'
<1>1. InstallInv'
  BY KeepInstall DEF CleanInv
<1>2. OnSchedule'
  BY OnScheduleKept DEF ClockInputs
<1>3. Untroubled'
  BY UntroubledKept DEF ClockInputs
<1> QED
  BY <1>1, <1>2, <1>3 DEF CleanInv, NoStall, DecapsFits

\* A step that changes nothing keeps CleanInv.
LEMMA StutterClean == CleanInv /\ UNCHANGED vars => CleanInv'
<1> SUFFICES ASSUME CleanInv, UNCHANGED vars
             PROVE  CleanInv'
  OBVIOUS
<1>1. InstallInv'
  BY StutterInstall DEF CleanInv
<1>2. OnSchedule' /\ Untroubled'
  BY DEF vars, fsmVars, decVars, handshakeVars, CleanInv, OnSchedule, Untroubled, Asked
<1> QED
  BY <1>1, <1>2 DEF CleanInv, NoStall, DecapsFits

\* A handshake without a fault is refused only for its ciphertext, whatever went
\* wrong in earlier ones, in every build that loses no hash completion and whose
\* stages outlast a decapsulation and an installation.
THEOREM CleanSucceeds == Reliable => (Spec => []CleanHandshakeSucceeds)
<1>1. CleanInv /\ [Clock]_vars => CleanInv'
  <2>1. ASSUME CleanInv, Clock
        PROVE  CleanInv'
    <3>1. PICK inj \in FaultKind \cup {None}, h \in HandshakeStart, t \in TrafficStart :
                 ClockInputs(inj, h, t)
      BY <2>1 DEF Clock, ClockInputs
    <3> QED
      BY <2>1, <3>1, KeepClean
  <2> QED
    BY <2>1, StutterClean
<1>2. CleanInv => CleanHandshakeSucceeds
  BY DEF CleanInv, Untroubled, CleanHandshakeSucceeds, final_fail
<1> QED
  BY <1>1, <1>2, InitClean, PTL DEF Spec
=============================================================================
