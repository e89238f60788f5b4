-------------------------- MODULE MCPageAllocator --------------------------
(***************************************************************************)
(* A machine of eight pages: page 0 and page 4 are reserved, the last      *)
(* entry of the map runs past the end of the bitmap.                       *)
(***************************************************************************)
EXTENDS PageAllocator

MCMemmap ==
  { [base |-> 0, length |-> 1, usable |-> FALSE],
    [base |-> 1, length |-> 3, usable |-> TRUE],
    [base |-> 4, length |-> 1, usable |-> FALSE],
    [base |-> 5, length |-> 6, usable |-> TRUE] }

=============================================================================
