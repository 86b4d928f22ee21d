----------------------------- MODULE MCPreparation -----------------------------
EXTENDS Preparation
MCManifest == [b \in Block |-> 1]
===============================================================================
