---------------------------- MODULE MCBootChain ----------------------------
(***************************************************************************)
(* BootChain with SBAT texts of up to three lines over two components.     *)
(***************************************************************************)
EXTENDS BootChain

Line(component, generation) == [component |-> component, generation |-> generation]

SomeTexts ==
  {<<>>,
   <<Junk>>,
   <<Line("shim", 1)>>,
   <<Line("shim", 2), Line("grub", 1)>>,
   <<Junk, Line("grub", 0), Line("shim", 1)>>,
   <<Line("shim", 1), Line("shim", 2), Line("grub", 1)>>}
=============================================================================
