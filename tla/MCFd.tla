-------------------------------- MODULE MCFd --------------------------------
(***************************************************************************)
(* Clients for fd.c: one with a descriptor and every call on it, the other *)
(* without; with a descriptor each; a reader and a writer of one           *)
(* connection, as in tcpproxy.c; and clients that wait for exceptional     *)
(* conditions.                                                             *)
(***************************************************************************)
EXTENDS Fd

CONSTANTS t1, t2, f1, f2

One    == fdt :> {} @@ t1 :> {f1} \X (Calls \ {"e"}) @@ t2 :> {}
Own    == fdt :> {} @@ t1 :> {f1} \X (Calls \ {"e"}) @@ t2 :> {f2} \X (Calls \ {"e"})
Shared == fdt :> {} @@ t1 :> {<<f1, "fdread">>} @@ t2 :> {<<f1, "fdwrite">>}
Except == fdt :> {} @@ t1 :> {<<f1, "e">>} @@ t2 :> {<<f2, "e">>}

=============================================================================
