--------------------------- MODULE AddressSpaces ---------------------------
(***************************************************************************)
(* What the virtual memory extension (VME) of the abstract machine         *)
(* promises the kernel above it: an address space is a map from pages of   *)
(* the user area to physical pages, and the calls on it change that map    *)
(* and no other.                                                           *)
(***************************************************************************)
CONSTANTS Spaces, UserPages, Frames

VARIABLE space       \* space[s][va]: the mapping of va in s, or Gone

Mappings == [pa : Frames, write : BOOLEAN]
Unmapped == [pa |-> 0, write |-> FALSE]
Gone == [va \in {} |-> Unmapped]

Init == space = [s \in Spaces |-> Gone]

(* The calls, from the spaces before to the spaces after.                  *)
Protect(old, new, s) ==
  old[s] = Gone /\ new = [old EXCEPT ![s] = [va \in UserPages |-> Unmapped]]

Map(old, new, s, va) ==
  /\ old[s] # Gone /\ old[s][va] = Unmapped
  /\ \E m \in Mappings : new = [old EXCEPT ![s][va] = m]

Unmap(old, new, s, va) ==
  old[s] # Gone /\ old[s][va] # Unmapped /\ new = [old EXCEPT ![s][va] = Unmapped]

Unprotect(old, new, s) == old[s] # Gone /\ new = [old EXCEPT ![s] = Gone]

Call(old, new) ==
  \E s \in Spaces : \/ Protect(old, new, s) \/ Unprotect(old, new, s)
                    \/ \E va \in UserPages : Map(old, new, s, va) \/ Unmap(old, new, s, va)

Next == \E old \in {space}, new \in {space'} : Call(old, new)

Spec == Init /\ [][Next]_space
=============================================================================
