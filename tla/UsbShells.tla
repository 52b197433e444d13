----------------------------- MODULE UsbShells -----------------------------
(***************************************************************************)
(* The shells of the MPIOVD node (src/soft/mpiovd/src/link).  The link     *)
(* manager (linkmgr.c) gives the UART to the MAVLink threads or to a       *)
(* shell, as SH_enable says; the USB/CAN manager (can_usb.c) runs the CAN  *)
(* thread or, when there is a plug, a shell on USB.  Both shells are the   *)
(* one of cli.c, with one shell_tp, one shell_sdp and one CurrentCmd_tp.   *)
(***************************************************************************)
EXTENDS Integers, FiniteSets

CONSTANT Commands   (* threads a command of the shell can fork            *)

Shells == {"uart_shell", "usb_shell"}
Mavlink == {"linkout", "linkin"}
Nobody == "nobody"

CommandsAssumption ==
  Commands \cap (Shells \cup Mavlink \cup {"can", Nobody}) = {}

VARIABLES
  sh_enable, plugged,    (* the parameter; the pin of the plug             *)
  lm, shell_active,      (* the link manager: boot, watch, kill            *)
  victim,                (* the shell it waits for                         *)
  um, can_active,        (* the other: watch, term; CAN_ACTIVE_FLAG        *)
  curr_tp,               (* the thread it has forked                       *)
  shell_tp, shell_sdp,   (* the last shell forked; the last one started    *)
  CurrentCmd_tp,
  phase,                 (* of the shells: absent, start, loop, and in     *)
                         (* chThdWait: sigint, dying                       *)
  awaited,               (* the command they wait for there                *)
  alive, final, terminated,  (* the threads on the heap, as in ThdHeap     *)
  wild,                  (* a kernel function got the pointer of a thread  *)
                         (* whose memory was freed: nothing is known then  *)
  both,                  (* there have been two shells at once             *)
  careless               (* a command was executed, or its shell killed,   *)
                         (* while there was one already                    *)

managers == <<lm, shell_active, victim, um, can_active, curr_tp>>
shellvars == <<shell_tp, shell_sdp, CurrentCmd_tp, phase, awaited>>
threads == <<alive, final, terminated>>
vars == <<sh_enable, plugged, managers, shellvars, threads, wild, both, careless>>

Init ==
  /\ sh_enable \in {0, 1} /\ plugged \in BOOLEAN
  /\ lm = "boot" /\ shell_active = FALSE /\ victim = Nobody
  /\ um = "watch" /\ can_active = TRUE /\ curr_tp = Nobody
  /\ shell_tp = Nobody /\ shell_sdp = Nobody /\ CurrentCmd_tp = Nobody
  /\ phase = [s \in Shells |-> "absent"] /\ awaited = [s \in Shells |-> Nobody]
  /\ alive = {} /\ final = {} /\ terminated = {}
  /\ wild = FALSE /\ both = FALSE /\ careless = FALSE

-----------------------------------------------------------------------------
Running == alive \ final

(* chThdTerminate. *)
Terminate(ts) ==
  /\ terminated' = terminated \cup (ts \cap alive)
  /\ wild' = ~(ts \subseteq alive)

DoesNotWait(ts) == TRUE

(* chThdWait, and what is on the heap after it.                            *)
Waited(ts) == ts \cap alive \subseteq final

Replaced(ts, new) ==
  /\ alive' = (alive \ (ts \cap final)) \cup new
  /\ final' = final \ (ts \cup new)
  /\ terminated' = terminated \ (ts \cup new)
  /\ wild' = ~(ts \subseteq alive)

(* SpawnShellThreads. *)
ShellForked(s) ==
  /\ shell_tp' = s
  /\ phase' = [phase EXCEPT ![s] = "start"]
  /\ both' = (both \/ \E o \in Shells \ {s} : o \in Running)
  /\ UNCHANGED <<shell_sdp, CurrentCmd_tp, awaited>>

(* That shell goes, with the command it has.                               *)
KillsOneWithCommand(s) == careless \/ (s \in alive /\ CurrentCmd_tp \in alive)

-----------------------------------------------------------------------------
(* LinkMgrThread. *)

LmBoot ==
  /\ ~wild /\ lm = "boot" /\ lm' = "watch"
  /\ IF sh_enable = 0
     THEN /\ Replaced({}, Mavlink) /\ shell_active' = FALSE
          /\ UNCHANGED <<shellvars, both>>
     ELSE Replaced({}, {"uart_shell"}) /\ ShellForked("uart_shell") /\ shell_active' = TRUE
  /\ UNCHANGED <<sh_enable, plugged, victim, um, can_active, curr_tp, careless>>

(* KillShellThreads kills the shell forked last, on whatever port.         *)
LmKillShell ==
  /\ ~wild /\ lm = "watch" /\ shell_active /\ sh_enable = 0
  /\ lm' = "kill"
  /\ victim' = shell_tp /\ Terminate({shell_tp})
  /\ careless' = KillsOneWithCommand(shell_tp)
  /\ UNCHANGED <<sh_enable, plugged, shell_active, um, can_active, curr_tp, shellvars, alive, final, both>>

LmShellKilled ==
  /\ ~wild /\ lm = "kill" /\ shell_active
  /\ Waited({victim}) /\ Replaced({victim}, Mavlink)
  /\ lm' = "watch" /\ shell_active' = FALSE
  /\ UNCHANGED <<sh_enable, plugged, victim, um, can_active, curr_tp, shellvars, both, careless>>

LmKillMavlink ==
  /\ ~wild /\ lm = "watch" /\ ~shell_active /\ sh_enable = 1
  /\ lm' = "kill"
  /\ Terminate(Mavlink)
  /\ UNCHANGED <<sh_enable, plugged, shell_active, victim, um, can_active, curr_tp, shellvars, alive, final, both, careless>>

LmMavlinkKilled ==
  /\ ~wild /\ lm = "kill" /\ ~shell_active
  /\ Waited(Mavlink) /\ Replaced(Mavlink, {"uart_shell"}) /\ ShellForked("uart_shell")
  /\ lm' = "watch" /\ shell_active' = TRUE
  /\ UNCHANGED <<sh_enable, plugged, victim, um, can_active, curr_tp, careless>>

-----------------------------------------------------------------------------
(* UsbCanMgrThread.  is_usb_present takes its time, and is asked twice; of *)
(* the two answers one counts.                                             *)

UmFork ==
  /\ ~wild /\ um = "watch" /\ curr_tp = Nobody
  /\ can_active' = ~plugged
  /\ IF plugged
     THEN Replaced({}, {"usb_shell"}) /\ ShellForked("usb_shell") /\ curr_tp' = "usb_shell"
     ELSE Replaced({}, {"can"}) /\ curr_tp' = "can" /\ UNCHANGED <<shellvars, both>>
  /\ UNCHANGED <<sh_enable, plugged, lm, shell_active, victim, um, careless>>

OnlyPlugIn == plugged /\ can_active

Changed == plugged = can_active

UmTerm ==
  /\ ~wild /\ um = "watch" /\ curr_tp # Nobody
  /\ Changed
  /\ um' = "term"
  /\ Terminate({curr_tp})
  /\ careless' = IF can_active THEN careless ELSE KillsOneWithCommand(curr_tp)
  /\ UNCHANGED <<sh_enable, plugged, lm, shell_active, victim, can_active, curr_tp, shellvars, alive, final, both>>

(* What the pin says by now is not asked.                                  *)
UmCanTermed ==
  /\ ~wild /\ um = "term" /\ can_active
  /\ Waited({curr_tp}) /\ Replaced({curr_tp}, {"usb_shell"}) /\ ShellForked("usb_shell")
  /\ um' = "watch" /\ can_active' = FALSE /\ curr_tp' = "usb_shell"
  /\ UNCHANGED <<sh_enable, plugged, lm, shell_active, victim, careless>>

SetsTheFlag == TRUE

UmUsbTermed ==
  /\ ~wild /\ um = "term" /\ ~can_active
  /\ Waited({curr_tp}) /\ Replaced({curr_tp}, {"can"})
  /\ um' = "watch" /\ can_active' = SetsTheFlag /\ curr_tp' = "can"
  /\ UNCHANGED <<sh_enable, plugged, lm, shell_active, victim, shellvars, both, careless>>

-----------------------------------------------------------------------------
(* ShellThread. *)

Starts(s) ==
  /\ ~wild /\ phase[s] = "start"
  /\ shell_sdp' = s
  /\ phase' = [phase EXCEPT ![s] = "loop"]
  /\ UNCHANGED <<sh_enable, plugged, managers, shell_tp, CurrentCmd_tp, awaited, threads, wild, both, careless>>

Reads(s) == ~wild /\ phase[s] = "loop"

Crowded(s) == careless \/ CurrentCmd_tp \in alive \/ s \in terminated

ExecuteForks(s, t) ==
  /\ Reads(s) /\ t \notin alive
  /\ Replaced({}, {t})
  /\ CurrentCmd_tp' = t
  /\ careless' = Crowded(s)
  /\ UNCHANGED <<sh_enable, plugged, managers, shell_tp, shell_sdp, phase, awaited, both>>

Execute(s, enable) ==
  /\ Reads(s)
  /\ CurrentCmd_tp' = Nobody
  /\ careless' = Crowded(s)
  /\ sh_enable' = enable
  /\ UNCHANGED <<plugged, managers, shell_tp, shell_sdp, phase, awaited, threads, wild, both>>

(* logout and param set SH_enable.                                         *)
Switches(s) == \E enable \in {0, 1} : Execute(s, enable)

Sigint(s) ==
  /\ Reads(s) /\ CurrentCmd_tp # Nobody
  /\ phase' = [phase EXCEPT ![s] = "sigint"]
  /\ awaited' = [awaited EXCEPT ![s] = CurrentCmd_tp]
  /\ Terminate({CurrentCmd_tp})
  /\ UNCHANGED <<sh_enable, plugged, managers, shell_tp, shell_sdp, CurrentCmd_tp, alive, final, both, careless>>

KeepsPointer == CurrentCmd_tp

Forgets == Nobody

CommandWaited(s) ==
  /\ ~wild /\ phase[s] = "sigint" /\ Waited({awaited[s]})
  /\ Replaced({awaited[s]}, {})
  /\ CurrentCmd_tp' = Forgets
  /\ phase' = [phase EXCEPT ![s] = "loop"]
  /\ UNCHANGED <<sh_enable, plugged, managers, shell_tp, shell_sdp, awaited, both, careless>>

(* Of a command whose memory was freed p_state may be anything.            *)
SeenRunning == CurrentCmd_tp \in Commands \ final
SeenFinal   == CurrentCmd_tp \notin Running

Dies(s) ==
  /\ Reads(s) /\ s \in terminated
  /\ \/ /\ SeenRunning
        /\ phase' = [phase EXCEPT ![s] = "dying"]
        /\ awaited' = [awaited EXCEPT ![s] = CurrentCmd_tp]
        /\ Terminate({CurrentCmd_tp}) /\ UNCHANGED final
     \/ /\ SeenFinal
        /\ phase' = [phase EXCEPT ![s] = "absent"]
        /\ final' = final \cup {s}
        /\ UNCHANGED <<awaited, terminated, wild>>
  /\ UNCHANGED <<sh_enable, plugged, managers, shell_tp, shell_sdp, CurrentCmd_tp, alive, both, careless>>

(* CurrentCmd_tp stays what it was. *)
Dead(s) ==
  /\ ~wild /\ phase[s] = "dying" /\ Waited({awaited[s]})
  /\ phase' = [phase EXCEPT ![s] = "absent"]
  /\ alive' = alive \ {awaited[s]}
  /\ final' = (final \ {awaited[s]}) \cup {s}
  /\ terminated' = terminated \ {awaited[s]}
  /\ wild' = (awaited[s] \notin alive)
  /\ UNCHANGED <<sh_enable, plugged, managers, shell_tp, shell_sdp, CurrentCmd_tp, awaited, both, careless>>

-----------------------------------------------------------------------------
(* The other threads end when they are told; "loop" also by itself.        *)
Ends(t) ==
  /\ ~wild /\ t \in Running \ Shells
  /\ t \in terminated \cup Commands
  /\ final' = final \cup {t}
  /\ UNCHANGED <<sh_enable, plugged, managers, shellvars, alive, terminated, wild, both, careless>>

(* A PARAM_SET, and somebody at the plug.                                  *)
SetEnable ==
  /\ ~wild /\ "linkin" \in Running
  /\ sh_enable' = 1 - sh_enable
  /\ UNCHANGED <<plugged, managers, shellvars, threads, wild, both, careless>>

Plug ==
  /\ ~wild
  /\ plugged' = ~plugged
  /\ UNCHANGED <<sh_enable, managers, shellvars, threads, wild, both, careless>>

Undefined == wild /\ UNCHANGED vars

LinkMgr == LmBoot \/ LmKillShell \/ LmShellKilled \/ LmKillMavlink \/ LmMavlinkKilled

UsbCanMgr == UmFork \/ UmTerm \/ UmCanTermed \/ UmUsbTermed

ShellStep(s) == Starts(s) \/ CommandWaited(s) \/ Dead(s)

Others == Mavlink \cup {"can"} \cup Commands

Next ==
  \/ LinkMgr \/ UsbCanMgr
  \/ \E s \in Shells : ShellStep(s) \/ Dies(s) \/ Sigint(s) \/ Switches(s)
  \/ \E s \in Shells, t \in Commands : ExecuteForks(s, t)
  \/ \E t \in Others : Ends(t)
  \/ SetEnable \/ Plug \/ Undefined

Spec == Init /\ [][Next]_vars

(* A shell looks at chThdShouldTerminate in every turn (strong fairness).  *)
(* Every thread sleeps or waits for 250 ms at most in each turn.  "loop"   *)
(* needs 20 s.  A plug that is pulled and put in again and again keeps     *)
(* is_usb_present busy, but not for ever (fairness of UsbCanMgr).          *)
FairSpec ==
  /\ Spec
  /\ WF_vars(LinkMgr) /\ WF_vars(UsbCanMgr)
  /\ \A s \in Shells : WF_vars(ShellStep(s)) /\ SF_vars(Dies(s))
  /\ \A t \in Others : WF_vars(Ends(t))

-----------------------------------------------------------------------------
(* cli.c:305-327: as long as there was never a shell on each port at the   *)
(* same time, and no command was in the way of another or of the end of    *)
(* its shell, no thread is killed or waited for whose memory was freed.    *)
NoFreedThread == ~both /\ ~careless => ~wild

(* linkmgr.c:46-73: then a shell on the UART and the MAVLink threads never *)
(* read the same port, and the shell_tp that the manager will kill is its  *)
(* own.                                                                    *)
UartHasOneOwner ==
  ~both /\ ~careless =>
    /\ "uart_shell" \in Running => Mavlink \cap Running = {}
    /\ "uart_shell" \in Running => shell_tp = "uart_shell"

(* can_usb.c:171-189: the interrupt that CAN and USB share goes to the one *)
(* whose thread is there, whatever else happens.                           *)
InterruptHasItsHandler ==
  /\ "can" \in Running => can_active
  /\ "usb_shell" \in Running => ~can_active

(* can_usb.c:118-144: a plug that stays gets its shell, and when it is     *)
(* gone for good the CAN thread is back, if there never were two shells.   *)
PlugIsNoticed ==
  /\ <>[]plugged => <>[]("usb_shell" \in Running \/ wild \/ both)
  /\ <>[]~plugged => <>[]("can" \in Running \/ wild \/ both)
=============================================================================
