---------------------------- MODULE MCTcpConnection ----------------------------
(***************************************************************************)
(* Small instances of TcpConnection.                                       *)
(***************************************************************************)
EXTENDS TcpConnection

\* Sequence numbers wrap in what the active end sends.
SomeISNs == Active :> {30} @@ Passive :> {5}

Calls2(active, passive) == Active :> active @@ Passive :> passive

\* Two segments one way, one each way, and a close by either end or by both.
Exchange ==
  {Calls2(<<"Send", "Send">>, <<"Accept", "Receive", "Receive">>),
   Calls2(<<"Send">>, <<"Accept", "Send", "Receive">>),
   Calls2(<<"Send", "Close">>, <<"Accept", "Receive">>),
   Calls2(<<"Send">>, <<"Accept", "Receive", "Close">>),
   Calls2(<<"Close">>, <<"Accept", "Send", "Close">>)}

\* One message.
Request == {Calls2(<<"Send">>, <<"Accept", "Receive">>)}

\* Two messages to an end that reads them.
Stutter == {Calls2(<<"Send", "Send">>, <<"Accept", "Receive", "Receive">>)}

TwoBytes == Active :> 2 @@ Passive :> 2
OneByte  == Active :> 1 @@ Passive :> 1

\* The instance whose sizes are even satisfies what the proofs assume.
ASSUME SizesAssumption == EvenSizes => Sizes
=============================================================================
