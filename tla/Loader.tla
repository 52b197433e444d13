------------------------------- MODULE Loader -------------------------------
(***************************************************************************)
(* How the firmware gets into MPIOVD: src/soft/mpiovd/stm32loader.py talks *)
(* with the boot loader of the chip over a serial line that loses some of  *)
(* what is said and may be slower than the timeout of the program.  What   *)
(* is written at once, a command with its check byte, an address, a        *)
(* length, a block of 256 bytes, is one token.                             *)
(***************************************************************************)
EXTENDS Integers, Sequences

CONSTANTS
  Blocks,    (* blocks in the file                                         *)
  MaxLoss    (* a bound: tokens the line loses                             *)

LoaderAssumption == Blocks \in Nat \ {0} /\ MaxLoss \in Nat

VARIABLES
  cmd,       (* the command the program is at; end after the last one      *)
  block,     (* of the file, which it writes or reads                      *)
  at,        (* the step of the command; see Steps                         *)
  job,       (* the options -e, -w, -v                                     *)
  data,      (* what readMemory has read                                   *)
  outcome,   (* going, exception, ok or failed, as printed; or done      *)
  released,  (* releaseChip: the chip runs its own program                 *)
  down, up,  (* tokens on the way to the chip and from it                  *)
  chip,      (* what the boot loader waits for                             *)
  place,     (* the address it was given                                   *)
  flash,     (* each block: erased, old, new, or mixed                     *)
  lost

position == <<cmd, block, at>>
host == <<position, job, data, outcome, released>>
device == <<chip, place, flash>>
vars == <<host, device, down, up, lost>>

Jobs == [erase : BOOLEAN, write : BOOLEAN, verify : BOOLEAN]

-----------------------------------------------------------------------------
(* A step sends a token, waits for the acknowledgement or takes what it is *)
(* sent.  readMemory takes a block, the other commands whatever they read. *)
Send(what) == [op |-> "send", what |-> what]
Ack == [op |-> "ack", what |-> "none"]
Take(what) == [op |-> "take", what |-> what]

(* cmdGet, cmdGetID *)
Asks(what) == <<Send(what), Ack, Take("info"), Ack>>

(* initChip, cmdEraseMemory, cmdWriteMemory, cmdReadMemory *)
Steps ==
  [sync  |-> <<Send("sync"), Ack>>,
   get   |-> Asks("get"),
   id    |-> Asks("id"),
   erase |-> <<Send("erase"), Ack, Send("all"), Ack>>,
   write |-> <<Send("write"), Ack, Send("address"), Ack, Send("data"), Ack>>,
   read  |-> <<Send("read"), Ack, Send("address"), Ack, Send("length"), Ack, Take("data")>>]

(* The main program: what comes after a command, as the options say.       *)
Verify == IF job.verify THEN "read" ELSE "end"
Write == IF job.write THEN "write" ELSE Verify
Erase == IF job.erase THEN "erase" ELSE Write

Following ==
  CASE cmd = "sync" -> "get"
    [] cmd = "get" -> "id"
    [] cmd = "id" -> Erase
    [] cmd = "erase" -> Write
    [] cmd = "write" -> Verify
    [] cmd = "read" -> "end"

(* writeMemory and readMemory do all blocks.                               *)
Goes ==
  /\ UNCHANGED outcome
  /\ IF at < Len(Steps[cmd]) THEN at' = at + 1 /\ UNCHANGED <<cmd, block>>
     ELSE /\ at' = 1
          /\ IF cmd \in {"write", "read"} /\ block < Blocks
             THEN block' = block + 1 /\ UNCHANGED cmd
             ELSE block' = 1 /\ cmd' = Following

(* A chip that was not reset into the boot loader says nothing.            *)
Init ==
  /\ job \in Jobs /\ cmd = "sync" /\ block = 1 /\ at = 1
  /\ data = <<>> /\ outcome = "going" /\ released = FALSE
  /\ down = <<>> /\ up = <<>> /\ lost = 0
  /\ chip \in {"sync", "mute"} /\ place = 1
  /\ flash \in {[b \in 1 .. Blocks |-> f] : f \in {"old", "erased"}}

-----------------------------------------------------------------------------
Runs == outcome = "going" /\ cmd # "end"
Step == Steps[cmd][at]
Answered == up # <<>>

Retries == UNCHANGED <<position, outcome>>

(* An exception ends it, but for the first acknowledgement, in initChip.   *)
Raises ==
  IF cmd = "sync" THEN Goes ELSE outcome' = "exception" /\ UNCHANGED position

Sends ==
  /\ Runs /\ Step.op = "send" /\ Goes
  /\ down' = Append(down, [what |-> Step.what, block |-> block])
  /\ UNCHANGED <<job, data, released, device, up, lost>>

IsAck(t) == t.what = "ack"

(* _wait_for_ask *)
WaitsForAck ==
  /\ Runs /\ Step.op = "ack" /\ Answered
  /\ IF IsAck(Head(up)) THEN Goes ELSE Raises
  /\ up' = Tail(up)
  /\ UNCHANGED <<job, data, released, device, down, lost>>

(* The length of what it reads comes with it: what is no answer is read on *)
(* until nothing comes.                                                    *)
TakesInfo ==
  /\ Runs /\ Step.op = "take" /\ Step.what = "info" /\ Answered
  /\ Goes /\ up' = IF Head(up).what = "info" THEN Tail(up) ELSE <<>>
  /\ UNCHANGED <<job, data, released, device, down, lost>>

TakesData ==
  /\ Runs /\ Step.op = "take" /\ Step.what = "data" /\ Answered
  /\ Goes /\ up' = Tail(up)
  /\ data' = Append(data, Head(up).value)
  /\ UNCHANGED <<job, released, device, down, lost>>

(* Five seconds; the answer may still come.  A block that does not come is *)
(* none of the data.                                                       *)
TimesOut ==
  /\ Runs /\ Step.op # "send" /\ ~Answered
  /\ IF Step.what = "data" THEN Goes ELSE Raises
  /\ UNCHANGED <<job, data, released, device, down, up, lost>>

File == [b \in 1 .. Blocks |-> "new"]

NoneDiffers == \A i \in DOMAIN data : data[i] = "new"

Verified == data = File

Compares ==
  /\ outcome = "going" /\ cmd = "end"
  /\ outcome' = IF ~job.verify THEN "done" ELSE IF Verified THEN "ok" ELSE "failed"
  /\ UNCHANGED <<position, job, data, released, device, down, up, lost>>

(* finally: *)
releaseChip ==
  /\ outcome # "going" /\ ~released /\ released' = TRUE
  /\ chip' = "mute" /\ down' = <<>> /\ up' = <<>>
  /\ UNCHANGED <<position, job, data, outcome, place, flash, lost>>

(* The program is run again on what it left. *)
Starts ==
  /\ released /\ released' = FALSE
  /\ job' \in Jobs /\ cmd' = "sync" /\ block' = 1 /\ at' = 1
  /\ data' = <<>> /\ outcome' = "going" /\ chip' \in {"sync", "mute"}
  /\ UNCHANGED <<down, up, place, flash, lost>>

-----------------------------------------------------------------------------
Says(what, value) == [what |-> what, value |-> value]

Replies(ts) == up' = up \o ts

AckIt == <<Says("ack", "none")>>
NackIt == <<Says("nack", "none")>>

(* Flash bits can only be cleared.                                         *)
Programmed(f) == IF f = "erased" THEN "new" ELSE IF f = "new" THEN "new" ELSE "mixed"

Heard ==
  /\ down # <<>> /\ down' = Tail(down)

Listens(state, what, next, ts) ==
  /\ chip = state /\ Head(down).what = what /\ chip' = next /\ Replies(ts)

Info == AckIt \o <<Says("info", "none")>> \o AckIt

(* The boot loader; it knows its commands and ignores nothing it is told   *)
(* in their place.                                                         *)
Command_ ==
  \/ Listens("sync", "sync", "command", AckIt)
  \/ \E w \in {"get", "id"} : Listens("command", w, "command", Info)
  \/ Listens("command", "erase", "all", AckIt)
  \/ Listens("command", "write", "write at", AckIt)
  \/ Listens("command", "read", "read at", AckIt)

Address ==
  /\ \/ Listens("write at", "address", "data", AckIt)
     \/ Listens("read at", "address", "length", AckIt)
  /\ place' = Head(down).block

Length ==
  Listens("length", "length", "command", AckIt \o <<Says("data", flash[place])>>)

EraseAll == Listens("all", "all", "command", AckIt) /\ flash' = [b \in 1 .. Blocks |-> "erased"]

(* The block it was told of comes to the place it was told.                *)
Program ==
  /\ Listens("data", "data", "command", AckIt)
  /\ flash' = [flash EXCEPT ![place] =
                 IF Head(down).block = place THEN Programmed(@) ELSE "mixed"]

Understands(w) ==
  \/ w = chip
  \/ chip = "command" /\ w \in {"get", "id", "erase", "write", "read"}
  \/ chip \in {"write at", "read at"} /\ w = "address"

Chip ==
  /\ Heard /\ UNCHANGED <<host, lost>>
  /\ \/ Command_ /\ UNCHANGED <<place, flash>>
     \/ Address /\ UNCHANGED flash
     \/ Length /\ UNCHANGED <<place, flash>>
     \/ (EraseAll \/ Program) /\ UNCHANGED place
     \/ /\ chip # "mute" /\ ~Understands(Head(down).what)
        /\ chip' \in {chip, "command"} /\ Replies(NackIt) /\ UNCHANGED <<place, flash>>
     \/ chip = "mute" /\ UNCHANGED <<chip, place, flash, up>>

Loses ==
  /\ lost < MaxLoss /\ lost' = lost + 1
  /\ \/ down # <<>> /\ down' = Tail(down) /\ UNCHANGED up
     \/ up # <<>> /\ up' = Tail(up) /\ UNCHANGED down
  /\ UNCHANGED <<host, device>>

Host == Sends \/ WaitsForAck \/ TakesInfo \/ TakesData \/ TimesOut \/ Compares \/ releaseChip

Next == Host \/ Starts \/ Chip \/ Loses

Spec == Init /\ [][Next]_vars /\ WF_vars(Host)

-----------------------------------------------------------------------------
(* stm32loader.py:417-420: "Verification OK" is true, and so is silence    *)
(* after writing to an erased chip: the firmware is in the flash.  Late    *)
(* answers are taken for those to later commands.                          *)
SaidIsWritten ==
  ~released =>
    /\ outcome = "ok" => flash = File
    /\ outcome = "done" /\ job.write /\ job.erase => flash = File

(* stm32loader.py:434-435: whatever happens the chip is let go.            *)
Ends == []<>released
=============================================================================
