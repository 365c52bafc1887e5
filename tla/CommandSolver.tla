----------------------------- MODULE CommandSolver -----------------------------
(***************************************************************************)
(* commandsolver: what CommandInvoker::executeCommand does with the text   *)
(* of one message. A command is abstracted to its "Command" number and to  *)
(* whether its "Args" decode; the text that is published is carried by the *)
(* caller (SocketServer.tla).                                              *)
(***************************************************************************)
EXTENDS Integers, Sequences

CREATE == 0
PROBE == 1
STOP == 4
GETINFO == 5

(* A "Command" that is not an integer, or a text that is not an object.    *)
NotInt == -1
(* No "Command" key.                                                       *)
Absent == -2

ArgsKinds == {"valid", "invalid", "absent"}

NeedsArgs(c) == c.command \in {CREATE, PROBE}

(* What a command's execute() publishes to.                                *)
CommandTopic(n) ==
  CASE n = CREATE  -> "CreateFile"
    [] n = PROBE   -> "Probe"
    [] n = STOP    -> "StopTest"
    [] n = GETINFO -> "GetInfo"

(* The outcomes of createCommand: a command (named by its topic), an       *)
(* exception, or a null pointer. operator[] of a const json with a key the *)
(* object lacks is undefined: it may throw or end the process.             *)
createCommand(c) ==
  CASE c.command = NotInt -> {"throw"}
    [] c.command = Absent -> {"throw", "crash"}
    [] NeedsArgs(c) -> (CASE c.args = "absent"  -> {"throw", "crash"}
                          [] c.args = "invalid" -> {"throw"}
                          [] c.args = "valid"   -> {CommandTopic(c.command)})
    [] c.command \in {STOP, GETINFO} -> {CommandTopic(c.command)}
    [] OTHER -> {"null"}

(* executeCommand on a message made of the texts in msg: several objects   *)
(* in a row do not parse, and the null pointer is dereferenced.            *)
executeCommand(msg) ==
  IF Len(msg) # 1
  THEN {"throw"}
  ELSE {IF o = "null" THEN "crash" ELSE o : o \in createCommand(msg[1])}

==============================================================================
