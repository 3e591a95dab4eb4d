------------------------------- MODULE Custos -------------------------------
(***************************************************************************)
(* The Custos adapter, slot 2 (src/adapters/custos.rs): the verdict of the  *)
(* invariant engine in the shape of the seam.  Custos itself is external.   *)
(***************************************************************************)
EXTENDS Gate

CustosVerdict == [level : Severity, findings : SUBSET [level : Severity, code : Code]]

(* What Custos owes (src/seam.rs:137): the level is that of the worst       *)
(* finding.                                                                 *)
CustosContract(v) ==
    /\ \A f \in v.findings : f.level <= v.level
    /\ v.level # Green => \E f \in v.findings : f.level = v.level

(* severity_from_level renames the variants of an enum one to one: here     *)
(* both sides use the same names.                                           *)
verdict_from_custos(v) ==
    [level |-> v.level,
     findings |-> {[severity |-> f.level, code |-> f.code] : f \in v.findings}]
=============================================================================
