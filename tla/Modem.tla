------------------------------- MODULE Modem -------------------------------
(***************************************************************************)
(* The connection of the BNAP node to the control centre through the GSM   *)
(* modem (src/soft/bnap/src/gsm/wavecom.c).  ModemThread talks AT commands *)
(* until the modem is in data mode, sets modem_connected, and connects     *)
(* anew when it hears no heartbeat for MODEM_ALIVE_TIMEOUT.  RssiThread    *)
(* asks for the signal strength, the senders of the CC port write          *)
(* messages, the unpacker reads them; modem_connected and the semaphore    *)
(* cc_out are all that keeps their bytes apart, and RssiThread does not    *)
(* take the semaphore (wavecom.c:280, 667).                                *)
(*                                                                         *)
(* An AT command with its answer is one step; what the modem answers is    *)
(* not determined.  A function that asks again counts its tries down, from *)
(* Tries for all of them.                                                  *)
(***************************************************************************)
EXTENDS Integers, Sequences

CONSTANTS
  Tries,      (* POWERON_TRY, CPIN_TRY, CREG_TRY, ... BEARER_TRY           *)
  RssiTries,  (* the tries of update_rssi                                  *)
  Alive       (* MODEM_ALIVE_TIMEOUT, in seconds                           *)

ModemAssumption ==
  Tries \in Nat \ {0} /\ RssiTries \in Nat \ {0} /\ Alive \in Nat \ {0}

VARIABLES
  pc,         (* where ModemThread is                                      *)
  stage, try, (* the function of _init_modem it is in, its tries left      *)
  silence,    (* seconds left of the wait it is in                         *)
  stop,       (* chThdTerminate(modem_tp)                                  *)
  settings,   (* the fields of the settings file are all filled in         *)
  connected,  (* GlobalFlags.modem_connected                               *)
  known,      (* fake_rssi # 0 /\ fake_ber # 0                             *)
  mode,       (* the modem takes bytes for "command" or "data"             *)
  beat,       (* a pending EVMSK_MAVLINK_HEARTBEAT_CC                      *)
  cc_out,     (* the holder of the semaphore and those who wait for it     *)
  sender,     (* where the senders of the CC port are                      *)
  rssi,       (* tries left to RssiThread in update_rssi, 0: it sleeps     *)
  stray,      (* history: messages the packer wrote since the flag fell    *)
  chatter,    (* history: AT commands of RssiThread sent as data           *)
  intruders,  (* history: messages of the senders within "+++" and its two *)
              (* silences                                                  *)
  questions   (* history: AT commands of RssiThread within them            *)

dialogue == <<pc, stage, try, silence>>
flags    == <<connected, known>>
port     == <<cc_out, sender>>
escape   == <<intruders, questions>>
history  == <<stray, chatter, escape>>
vars == <<dialogue, stop, settings, flags, mode, beat, port, rssi, history>>

(* The packer looks at modem_connected, the reader of the log does not     *)
(* (microsd.c:199).                                                        *)
Senders == {"packer", "reader"}

(* _init_modem; the stages apn, user and pass are the loops of set_apn.    *)
Stages == <<"poweron", "sim", "cgreg", "rssi", "wopen", "wipcfg", "load",
            "apn", "user", "pass", "bearer", "create", "start">>

ApnStages == {"apn", "user", "pass"}

Init ==
  /\ pc = "top" /\ stage = 1 /\ try = 0 /\ silence = 0
  /\ stop = FALSE /\ settings \in BOOLEAN
  /\ connected = FALSE /\ known = FALSE /\ mode = "command" /\ beat = FALSE
  /\ cc_out = <<>> /\ sender = [s \in Senders |-> "idle"]
  /\ rssi = 0
  /\ stray = 0 /\ chatter = 0
  /\ intruders = 0 /\ questions = 0

-----------------------------------------------------------------------------
(* ModemThread: _init_modem. *)

(* chThdShouldTerminate *)
ShouldTerminate == stop

OneTooMany == Alive + 1

(* int32_t n = MODEM_ALIVE_TIMEOUT *)
FullWait == Alive

TimeStands == silence

SecondLess == silence - 1

EntersDuty == pc' = "duty" /\ silence' = FullWait /\ UNCHANGED <<stage, try>>

EndsThread == pc' = "ended" /\ UNCHANGED <<stage, try, silence>>

(* _check_settings: no field of the settings is empty.                     *)
CheckSettings == settings

(* The head of the loop behind __INIT, and wait_poweron up to the first    *)
(* letter of the modem it has reset.                                       *)
Top ==
  /\ pc = "top"
  /\ \/ /\ ShouldTerminate \/ connected
        /\ EntersDuty
        /\ UNCHANGED mode
     \/ /\ ~(ShouldTerminate \/ connected) /\ ~CheckSettings
        /\ EndsThread
        /\ UNCHANGED mode
     \/ /\ ~(ShouldTerminate \/ connected) /\ CheckSettings
        /\ pc' = "reset" /\ mode' = "command"
        /\ UNCHANGED <<stage, try, silence>>
  /\ UNCHANGED <<stop, settings, flags, beat, port, rssi, history>>

(* The letter, for which wait_poweron waits without a limit.               *)
FirstLetter ==
  /\ pc = "reset"
  /\ pc' = "init" /\ stage' = 1 /\ try' = Tries
  /\ UNCHANGED <<silence, stop, settings, flags, mode, beat, port, rssi, history>>

(* A function of _init_modem is left: only a success that nobody asked to  *)
(* stop leads to the next one; wait_sim otherwise ends the thread.         *)
Continue ==
  IF stage < Len(Stages)
  THEN /\ stage' = stage + 1
       /\ try' = IF Stages[stage + 1] = "rssi" THEN RssiTries ELSE Tries
       /\ UNCHANGED <<pc, silence, connected, stray>>
  ELSE /\ connected' = TRUE
       /\ stray' = 0
       /\ EntersDuty

GivesUp ==
  /\ UNCHANGED <<stage, try, connected, stray>>
  /\ IF Stages[stage] = "sim"
     THEN pc' = "ended" /\ UNCHANGED silence
     ELSE pc' = "pause" /\ silence' = FullWait

Leave(success) ==
  IF success /\ (ShouldTerminate => Stages[stage] \in {"apn", "user"}) THEN Continue ELSE GivesUp

AsksAgain ==
  /\ try' = try - 1
  /\ UNCHANGED <<pc, stage, silence, connected, stray>>

(* while(try--): a good answer leaves the loop, and so does the last try.  *)
RetryLoop(good) ==
  IF good \/ try = 1 THEN Leave(good) ELSE AsksAgain

(* The loops of set_apn end with "if (try == 0) return GSM_FAILED": try is *)
(* 0 after a good answer to the last try, and has wrapped to UINT32_MAX    *)
(* after no good answer at all.                                            *)
ApnLoop(good) ==
  IF good \/ try = 1 THEN Leave(~(good /\ try = 1)) ELSE AsksAgain

(* update_rssi: no question if the values are known, else an answer ends   *)
(* it, and so do the defaults 21 and 99.                                   *)
RssiStage(answer) ==
  IF known \/ answer # "none" \/ try = 1 THEN Leave(TRUE) ELSE AsksAgain

Learns(answer, last) == known \/ answer = "good" \/ (last /\ answer = "none")

In(name) == Stages[stage] = name

(* One try of each function of _init_modem.                                *)
WaitPoweron == In("poweron") /\ \E good \in BOOLEAN : RetryLoop(good)

(* No PIN is wanted, or the one of the settings is accepted; a wrong PIN   *)
(* and a card that wants its PUK leave the loop.                           *)
WaitSim ==
  /\ In("sim")
  /\ (\E good \in BOOLEAN : RetryLoop(good)) \/ Leave(FALSE)

WaitCgreg == In("cgreg") /\ \E good \in BOOLEAN : RetryLoop(good)

StartWopen == In("wopen") /\ \E good \in BOOLEAN : RetryLoop(good)

StartWipcfg == In("wipcfg") /\ \E good \in BOOLEAN : RetryLoop(good)

LoadBearer == In("load") /\ \E good \in BOOLEAN : RetryLoop(good)

(* How the reload of the bearer after an error 803 went is ignored.        *)
StartBearer == In("bearer") /\ \E good \in BOOLEAN : RetryLoop(good)

CreateConnection == In("create") /\ \E good \in BOOLEAN : RetryLoop(good)

(* CONNECT: from now on the modem takes data.                              *)
StartConnection(good) ==
  /\ In("start")
  /\ RetryLoop(good)
  /\ mode' = IF good THEN "data" ELSE mode
  /\ chatter' = IF good THEN 0 ELSE chatter

SetApn == Stages[stage] \in ApnStages /\ \E good \in BOOLEAN : ApnLoop(good)

(* The signal strength may come with an error rate of zero. *)
FirstRssi(answer) ==
  /\ In("rssi")
  /\ RssiStage(answer)
  /\ known' = Learns(answer, try = 1)

Asking ==
  /\ pc = "init"
  /\ \/ /\ \/ WaitPoweron \/ WaitSim \/ WaitCgreg \/ StartWopen \/ StartWipcfg
           \/ LoadBearer \/ SetApn \/ StartBearer \/ CreateConnection
        /\ UNCHANGED <<known, mode, chatter>>
     \/ /\ \E answer \in {"good", "zero", "none"} : FirstRssi(answer)
        /\ UNCHANGED <<mode, chatter>>
     \/ /\ \E good \in BOOLEAN : StartConnection(good)
        /\ UNCHANGED known
  /\ UNCHANGED <<stop, settings, beat, port, rssi, escape>>

(* A network that works answers every question well.                       *)
WellAnswered ==
  Asking => \/ pc' = "duty" \/ stage' > stage
            \/ stop
            \/ Stages[stage] \in ApnStages /\ try = 1

-----------------------------------------------------------------------------
(* ModemThread: between two attempts. *)

(* _terminatable_wait *)
Pause ==
  /\ pc = "pause"
  /\ \/ /\ ShouldTerminate /\ silence > 0
        /\ EntersDuty
        /\ UNCHANGED cc_out
     \/ /\ ~ShouldTerminate /\ silence > 0
        /\ silence' = SecondLess
        /\ UNCHANGED <<pc, stage, try, cc_out>>
     \/ /\ silence = 0
        /\ pc' = "acquire" /\ cc_out' = Append(cc_out, "modem")
        /\ UNCHANGED <<stage, try, silence>>
  /\ UNCHANGED <<stop, settings, flags, mode, beat, sender, rssi, history>>

DoesNotWait == TRUE

(* acquire_cc_out of _etx_combo. *)
HasPort == Head(cc_out) = "modem"

InEscape == pc \in {"guard", "plus"}

(* _etx_combo: silence, "+++", silence. *)
Plus ==
  /\ \/ /\ pc = "acquire" /\ HasPort
        /\ pc' = "guard"
        /\ UNCHANGED <<mode, cc_out, escape>>
     \/ /\ pc = "guard"
        /\ pc' = "plus" /\ mode' \in {mode, "command"}
        /\ UNCHANGED <<cc_out, escape>>
     \/ /\ pc = "plus"
        /\ pc' = "top" /\ cc_out' = Tail(cc_out)
        /\ intruders' = 0 /\ questions' = 0
        /\ UNCHANGED mode
  /\ UNCHANGED <<stage, try, silence, stop, settings, flags, beat, sender, rssi,
                 stray, chatter>>

(* A turn of DUTY_CYCLE: a heartbeat, or a second without one.             *)
Duty ==
  /\ pc = "duty"
  /\ \/ /\ ShouldTerminate
        /\ EndsThread
        /\ connected' = FALSE
        /\ UNCHANGED <<beat, known>>
     \/ /\ ~ShouldTerminate /\ beat
        /\ beat' = FALSE /\ silence' = FullWait
        /\ UNCHANGED <<pc, stage, try, flags>>
     \/ /\ ~ShouldTerminate /\ ~beat /\ silence > 1
        /\ silence' = SecondLess
        /\ UNCHANGED <<pc, stage, try, flags, beat>>
     \/ /\ ~ShouldTerminate /\ ~beat /\ silence <= 1
        /\ known' = FALSE
        /\ pc' = "blank" /\ silence' = 0
        /\ UNCHANGED <<stage, try, connected, beat>>
  /\ UNCHANGED <<stop, settings, mode, port, rssi, history>>

FlagCleared == FALSE

(* ... the flag falls only after two messages and a sleep.                 *)
Disconnect ==
  /\ pc = "blank"
  /\ connected' = FlagCleared
  /\ pc' = "acquire" /\ cc_out' = Append(cc_out, "modem")
  /\ UNCHANGED <<stage, try, silence, stop, settings, known, mode, beat, sender, rssi, history>>

-----------------------------------------------------------------------------
(* RssiThread. *)

RssiWakes ==
  /\ rssi = 0
  /\ connected /\ ~known
  /\ rssi' = RssiTries
  /\ UNCHANGED <<dialogue, stop, settings, flags, mode, beat, port, history>>

CountUpTo(n, max) == IF n < max THEN n + 1 ELSE max

(* A try of update_rssi, without cc_out: in data mode the question goes to *)
(* the centre, and nobody answers.                                         *)
RssiAsks ==
  /\ rssi > 0
  /\ \E answer \in IF mode = "data" THEN {"none"} ELSE {"good", "zero", "none"} :
       /\ rssi' = IF answer = "none" THEN rssi - 1 ELSE 0
       /\ known' = Learns(answer, rssi = 1)
  /\ chatter' = IF mode = "data" THEN CountUpTo(chatter, 2 * RssiTries + 1) ELSE chatter
  /\ questions' = IF InEscape THEN CountUpTo(questions, RssiTries + 1) ELSE questions
  /\ UNCHANGED <<dialogue, stop, settings, connected, mode, beat, port, stray, intruders>>

-----------------------------------------------------------------------------
(* The CC port: packer, reader of the log, unpacker, and the world.        *)

(* cc_port_ready *)
PortReady == connected

WantsPort(s) ==
  /\ sender[s] = "idle"
  /\ s = "packer" => PortReady
  /\ sender' = [sender EXCEPT ![s] = "waits"]
  /\ cc_out' = Append(cc_out, s)
  /\ UNCHANGED <<dialogue, stop, settings, flags, mode, beat, rssi, history>>

(* acquire_cc_out, cc_sdWrite, release_cc_out *)
Writes(s) ==
  /\ sender[s] = "waits" /\ Head(cc_out) = s
  /\ sender' = [sender EXCEPT ![s] = "idle"]
  /\ cc_out' = Tail(cc_out)
  /\ stray' = IF s = "packer" /\ ~connected THEN CountUpTo(stray, 2) ELSE stray
  /\ intruders' = IF InEscape THEN CountUpTo(intruders, 1) ELSE intruders
  /\ UNCHANGED <<dialogue, stop, settings, flags, mode, beat, rssi, chatter, questions>>

(* CcUnpackCycle gets a heartbeat through. *)
Heartbeat ==
  /\ connected /\ mode = "data"
  /\ beat' = TRUE
  /\ UNCHANGED <<dialogue, stop, settings, flags, mode, port, rssi, history>>

(* The network drops the connection. *)
Drops ==
  /\ mode = "data"
  /\ mode' = "command"
  /\ UNCHANGED <<dialogue, stop, settings, flags, beat, port, rssi, history>>

(* modem_clicmd sets or erases the fields of the settings. *)
EditSettings ==
  /\ settings' = ~settings
  /\ UNCHANGED <<dialogue, stop, flags, mode, beat, port, rssi, history>>

(* cli_modem_start_cross stops the thread. *)
Terminate ==
  /\ ~stop
  /\ stop' = TRUE
  /\ UNCHANGED <<dialogue, settings, flags, mode, beat, port, rssi, history>>

ThreadStep == Top \/ FirstLetter \/ Asking \/ Pause \/ Plus \/ Duty \/ Disconnect

Next ==
  \/ ThreadStep
  \/ RssiWakes \/ RssiAsks
  \/ \E s \in Senders : WantsPort(s) \/ Writes(s)
  \/ Heartbeat \/ Drops \/ EditSettings \/ Terminate

Spec == Init /\ [][Next]_vars

(* The threads run, the modem sends its first letter after a reset, and    *)
(* the network works from some time on.                                    *)
FairSpec ==
  /\ Spec
  /\ WF_vars(ThreadStep)
  /\ <>[][WellAnswered]_vars
  /\ WF_vars(RssiAsks)
  /\ \A s \in Senders : WF_vars(Writes(s))

-----------------------------------------------------------------------------
TypeOK ==
  /\ pc \in {"top", "reset", "init", "pause", "acquire", "guard", "plus",
             "duty", "blank", "ended"}
  /\ stage \in 1 .. Len(Stages) /\ try \in Nat /\ silence \in 0 .. Alive
  /\ stop \in BOOLEAN /\ settings \in BOOLEAN
  /\ connected \in BOOLEAN /\ known \in BOOLEAN /\ beat \in BOOLEAN
  /\ mode \in {"command", "data"}
  /\ cc_out \in Seq(Senders \cup {"modem"})
  /\ sender \in [Senders -> {"idle", "waits"}]
  /\ rssi \in 0 .. RssiTries /\ stray \in Nat /\ chatter \in Nat
  /\ intruders \in Nat /\ questions \in Nat

(* wavecom.c:634-635: once modem_connected is cleared at most one message  *)
(* of the packer still goes out, the one it had looked at the flag for     *)
(* before it waited for cc_out (gen_link_packer.py:53-55).                 *)
StrayBounded == ~connected => stray <= 1

(* wavecom.c:274-276, 290-293: RssiThread disturbs a connection with no    *)
(* more than twice its tries, once when it is new and once when it is      *)
(* given up, whatever the modem answers.                                   *)
ChatterBounded == chatter <= 2 * RssiTries

(* wavecom.c:534-540: no message of the packer or of the reader of the log *)
(* goes out within "+++" and its two silences, however long they had       *)
(* waited for cc_out.  RssiThread does not wait for it: woken between      *)
(* wavecom.c:629 and 634 it asks on into the silences, though never more   *)
(* than the tries of one update_rssi, for the flag has fallen.             *)
EscapeBounded == intruders = 0 /\ questions <= RssiTries

(* wavecom.c:274-293, 534-540, 634-635: once the connection is given up at *)
(* most one message of the packer still goes out, the RSSI thread disturbs *)
(* a connection at its two ends only, and into the escape sequence nobody  *)
(* writes but the RSSI thread, and that no more than its tries.            *)
ModemIsLeftAlone == TypeOK /\ StrayBounded /\ ChatterBounded /\ EscapeBounded

(* wavecom.c:41: a connection on which no heartbeat comes is given up.     *)
SilenceIsNoticed == connected ~> (beat \/ ~connected)

(* wavecom.c:591-636: as soon as the network works for good, a lost        *)
(* or failed connection comes back, unless the settings or the SIM card    *)
(* end the thread, or the shell stops it.                                  *)
Reconnects == ~connected ~> (connected \/ pc = "ended")

(* cli_modem.c:223: whoever terminates the thread and waits for it does    *)
(* not wait for ever.                                                      *)
TerminateEnds == stop ~> pc = "ended"
=============================================================================
