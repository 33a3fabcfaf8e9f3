------------------------------ MODULE MCReport ------------------------------
(* A report of two subgroups, one with two checks and one with one.        *)
EXTENDS Report

TwoGroups == <<2, 1>>
=============================================================================
