---------------------------- MODULE AddressSpace ----------------------------
(***************************************************************************)
(* What the paging code promises: a translation of virtual pages to        *)
(* physical ones that changes one page at a time, never gives one frame to *)
(* two of the pages it manages, and leaves alone the pages through which   *)
(* the loader mapped the whole of physical memory.                         *)
(***************************************************************************)
EXTENDS Integers

CONSTANTS
  VPage,         \* the virtual pages
  Frame,         \* the physical pages they may be mapped to
  Fixed,         \* the loader's map of physical memory
  FirstSpace     \* the loader's translation: [VPage -> Nat], 0 for "none"

VARIABLE space

Init == space = FirstSpace

Managed == VPage \ Fixed

\* From one translation to the next: one managed page is unmapped, or mapped
\* to a frame no other managed page has.
Changes(old, new) ==
  \E v \in Managed :
    /\ new = [old EXCEPT ![v] = new[v]]
    /\ \/ new[v] = 0
       \/ /\ new[v] \in Frame
          /\ \A w \in Managed \ {v} : old[w] # new[v]

Next == Changes(space, space')

Spec == Init /\ [][Next]_space

=============================================================================
