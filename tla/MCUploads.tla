------------------------------ MODULE MCUploads ------------------------------
(* Three requests, of one or two JSON uploads of up to three paths, one    *)
(* above the other, and MsgPack packets, one of them cut short, with two   *)
(* message objects and two buffers.                                        *)
EXTENDS Uploads

CONSTANTS g1, g2, g3, root, a, ab, u1, u2, k, v, w

Mix(p1, p2, p3) == (g1 :> p1) @@ (g2 :> p2) @@ (g3 :> p3)
MCMixes == {Mix("http", "udp", "udp"), Mix("tcp", "udp", "udp"), Mix("http", "tcp", "udp")}

MCAbove == (root :> <<>>) @@ (a :> <<root>>) @@ (ab :> <<a, root>>)

Tag(x) == [y \in {k} |-> x]
Of(u, x, props) == [uuid |-> u, md |-> Tag(x), props |-> props]
Own   == [uot |-> v, uom |-> Unset]
Other == [uot |-> w, uom |-> v]
Third == [uot |-> Unset, uom |-> w]

MCUploads == {
  (root :> Of(None, v, None)) @@ (a :> Of(u1, w, None)) @@ (ab :> Of(u2, Unset, None)),
  (root :> Of(None, v, Other)) @@ (a :> Of(u1, Unset, Own)) @@ (ab :> Of(u2, Unset, Other)),
  (root :> Of(None, Unset, Third)) @@ (a :> Of(u1, w, Own)) @@ (ab :> Of(u2, v, None)),
  (a :> Of(None, w, Third)) @@ (ab :> Of(u1, Unset, Other)),
  (root :> Of(None, v, Third)) @@ (a :> Of(u1, Unset, Own)) @@ (ab :> Of(u2, Unset, Other)),
  (root :> Of(u2, v, Own)) @@ (ab :> Of(u1, Unset, Own)) }

MCPackets == {
  [kind |-> "whole", uuid |-> u1, md |-> Tag(w), props |-> Own, ends |-> 3],
  [kind |-> "whole", uuid |-> u2, md |-> None, props |-> None, ends |-> 1],
  [kind |-> "whole", uuid |-> u2, md |-> Tag(v), props |-> None, ends |-> 1],
  [kind |-> "partial", uuid |-> u1, md |-> None, props |-> None, ends |-> 1],
  [kind |-> "garbled", uuid |-> u1, md |-> None, props |-> None, ends |-> 1] }

=============================================================================
