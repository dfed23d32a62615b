---- MODULE MCRotationSync ----
\* The lounge screen, which may confirm for everyone; phones act as Elsewhere.
EXTENDS RotationSync, TLC
CONSTANTS a, screen
Shown == screen :> {a}
====
