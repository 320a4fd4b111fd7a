------------------------------ MODULE MCEngine ------------------------------
(***************************************************************************)
(* A treasury and a payroll engine, each with its registry, as the deploy  *)
(* scripts set them up; one caller, one account serving as runtime, and    *)
(* numbers that meet, miss and exceed a threshold.                         *)
(***************************************************************************)
EXTENDS ConfidentialEngine

CONSTANTS cde, payroll, cdeRegistry, payrollRegistry

MCEngines == {cde, payroll}
MCKind == [e \in MCEngines |-> IF e = cde THEN "treasury" ELSE "payroll"]
MCRegistries == {cdeRegistry, payrollRegistry}
MCRegistryOf == [e \in MCEngines |-> IF e = cde THEN cdeRegistry ELSE payrollRegistry]
MCPlaintexts == {0, 1}
=============================================================================
