---------------------------- MODULE MCInstaller ----------------------------
(* Instances of Installer for TLC: releases before and after a migration.  *)
EXTENDS Installer

CONSTANTS a, b
\* Two migrations lie between the releases.
MCSchema == [r \in Releases |-> IF r = b THEN 3 ELSE 1]
=============================================================================
