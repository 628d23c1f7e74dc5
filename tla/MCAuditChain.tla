---------------------------- MODULE MCAuditChain ----------------------------
(***************************************************************************)
(* Small instances of AuditChain for TLC.                                  *)
(***************************************************************************)
EXTENDS AuditChain

CONSTANTS m1

NoMetadata == {None}
SomeMetadata == {None, m1}
=============================================================================
