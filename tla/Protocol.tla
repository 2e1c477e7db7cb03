------------------------------ MODULE Protocol ------------------------------
(***************************************************************************)
(* The daemon's socket protocol: newline-delimited JSON, one request line  *)
(* answered by one response line (interconnect-daemon/src/protocol.rs).    *)
(*                                                                         *)
(* Request is tagged with "cmd" and decodes as itself.  Response is        *)
(* #[serde(untagged)]: the reader tries the variants in declaration order  *)
(* and takes the first whose fields are all present, ignoring the fields   *)
(* that variant does not name.                                             *)
(***************************************************************************)
EXTENDS Naturals, Sequences

\* Request, with Recv split by its `block` flag.
RequestOps == {"list", "state", "send", "recv_wait", "recv_nowait"}

ResponseKinds == {"messages", "sent", "state", "rooms", "error"}

\* The fields each Response variant serialises, and requires when decoded.
Fields(kind) ==
  CASE kind = "messages" -> {"ok", "messages"}
    [] kind = "sent"     -> {"ok"}
    [] kind = "state"    -> {"ok", "snapshot"}
    [] kind = "rooms"    -> {"ok", "rooms"}
    [] kind = "error"    -> {"ok", "error"}

\* Declaration order, the order serde tries them in.
Variants == <<"messages", "sent", "state", "rooms", "error">>

\* The variants whose required fields a line of kind `kind` carries.
Candidates(kind) == {i \in DOMAIN Variants : Fields(Variants[i]) \subseteq Fields(kind)}

\* The variant the CLI ends up with when the daemon wrote `kind`.
Decode(kind) ==
  Variants[CHOOSE i \in Candidates(kind) : \A j \in Candidates(kind) : i <= j]

=============================================================================
