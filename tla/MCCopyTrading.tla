---------------------------- MODULE MCCopyTrading ----------------------------
(* Small instances of CopyTrading. *)
EXTENDS CopyTrading

CONSTANTS alice, bob, carol

(* Alice and Bob follow each other, Carol follows Alice. *)
Circle == {<<alice, bob>>, <<bob, alice>>, <<alice, carol>>}

(* Bob and Carol follow Alice. *)
Fan == {<<alice, bob>>, <<alice, carol>>}

=============================================================================
