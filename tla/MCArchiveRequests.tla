-------------------------- MODULE MCArchiveRequests --------------------------
(* Types 2.0.0.0, 2.0.0.1 (MsgPack) and 64.0.0.0 (text). *)
EXTENDS ArchiveRequests

CONSTANTS h1, h2

Asked(uri, po, uuid, value, inherit, sources) ==
  [uri |-> uri, po |-> po, uuid |-> uuid, value |-> value, inherit |-> inherit, sources |-> sources]

Plain   == Asked("u", 33554432, <<>>, <<"v">>, TRUE, <<"u", "m">>)
Other   == Asked("u", 33554433, <<>>, <<"v">>, FALSE, <<>>)
ByExpr  == Asked("u", 33554432, <<"e">>, <<"v">>, FALSE, <<>>)
Textual == Asked("u", 1073741824, <<>>, <<"v">>, FALSE, <<>>)
Empty   == Asked("u", 33554432, <<>>, <<>>, FALSE, <<>>)

MCMessage == h1 :> <<Plain>> @@ h2 :> <<Empty, Plain, ByExpr>>

MCPayloads ==
  {[po |-> 33554432, uuid |-> <<"s">>], [po |-> 33554432, uuid |-> <<>>],
   [po |-> 1073741824, uuid |-> <<>>]}

(* One handler, one type more, and a request whose uuid and value read as  *)
(* those of another do when they are put together.                         *)
MCOthers == h1 :> <<Textual, Other>> @@ h2 :> <<Plain, Asked("u", 33554432, <<"v">>, <<"w">>, FALSE, <<>>),
                                        Asked("u", 33554432, <<>>, <<"v", "w">>, FALSE, <<>>)>>

MCOtherPayloads == {[po |-> 33554432, uuid |-> <<"s">>], [po |-> 33554433, uuid |-> <<"s">>]}

=============================================================================
