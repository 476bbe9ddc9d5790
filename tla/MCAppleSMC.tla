---------------------------- MODULE MCAppleSMC ----------------------------
(* AppleSMC for TLC: small bytes, two-byte key names, two keys and #KEY.    *)
EXTENDS AppleSMC

MCTable ==
    << [key |-> <<2, 0>>, value |-> <<2>>],
       [key |-> <<2, 3>>, value |-> <<0, 3>>] >>

MCNumKey == <<0, 0>>
=============================================================================
