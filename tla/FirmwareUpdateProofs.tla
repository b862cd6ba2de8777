------------------------ MODULE FirmwareUpdateProofs ------------------------
(* What the abstract update gives: a controller that is not held in its     *)
(* boot block has a whole main firmware to run.                             *)
EXTENDS FirmwareUpdate, TLAPS

(* At any moment the image is held or whole.  An implementation whose steps *)
(* map to this module's may therefore be interrupted anywhere.              *)
THEOREM HeldOrWhole == Spec => []WholeOrHeld
<1>1. Init => WholeOrHeld
  BY DEF Init, WholeOrHeld
<1>2. WholeOrHeld /\ [Next]_updateVars => WholeOrHeld'
  <2> SUFFICES ASSUME WholeOrHeld, [Next]_updateVars PROVE WholeOrHeld'
    OBVIOUS
  <2>1. CASE Hold
    BY <2>1 DEF Hold, WholeOrHeld
  <2>2. CASE Empty
    BY <2>2 DEF Empty, WholeOrHeld
  <2>3. CASE Fill
    BY <2>3 DEF Fill, WholeOrHeld
  <2>4. CASE Release
    BY <2>4 DEF Release, WholeOrHeld
  <2>5. CASE UNCHANGED updateVars
    BY <2>5 DEF updateVars, WholeOrHeld
  <2> QED  BY <2>1, <2>2, <2>3, <2>4, <2>5 DEF Next
<1> QED  BY <1>1, <1>2, PTL DEF Spec
=============================================================================
