---------------------------- MODULE MCSocketServer ----------------------------
(* The commands of a client: CREATE of either file, PROBE, STOP, GETINFO,  *)
(* a text that is rejected, and one that names no command the server has.  *)
EXTENDS SocketServer, TLC

(* The files are interchangeable.                                          *)
FileSymmetry == Permutations(Files)

Cmd(command, args, arg) == [command |-> command, args |-> args, arg |-> arg]

CreateProbeStop ==
  {Cmd(CREATE, "valid", f) : f \in Files} \cup {Cmd(PROBE, "valid", "-"), Cmd(STOP, "absent", "-")}

Wellformed == CreateProbeStop \cup {Cmd(GETINFO, "absent", "-")}

Harmless == Wellformed \cup {Cmd(PROBE, "invalid", "-")}

AnyCommand == Harmless \cup {Cmd(2, "valid", "-"), Cmd(PROBE, "absent", "-")}

==============================================================================
