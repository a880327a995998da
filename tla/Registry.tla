------------------------------ MODULE Registry ------------------------------
(***************************************************************************)
(* The entity registry: ecs/src/Registry.cpp, ecs/include/Registry.hpp and *)
(* ecs/include/SparseArray.hpp.                                            *)
(*                                                                         *)
(* A registry is a value [next, valid, data]: the next entity number, the  *)
(* entities that exist, and the components of every entity that ever did,  *)
(* as one record per entity.  destroyEntity takes the entity out of the    *)
(* valid ones and leaves its components where they are; a view hides it,   *)
(* getComponent does not.                                                  *)
(***************************************************************************)
EXTENDS Integers, Sequences

Numbers(r) == 0..(r.next - 1)

RegistryOK(r, Components) ==
    /\ r.next \in Nat
    /\ r.valid \subseteq Numbers(r)
    /\ r.data \in [Numbers(r) -> Components]

Cleared == [next |-> 0, valid |-> {}, data |-> [e \in {} |-> 0]]

IsValid(r, e) == e \in r.valid

(* createEntity and the addComponent calls that follow it, once for each   *)
(* member of the sequence.                                                 *)
CreateAll(r, new) ==
    LET upto == r.next + Len(new) - 1
    IN  [next  |-> r.next + Len(new),
         valid |-> r.valid \cup r.next..upto,
         data  |-> [e \in 0..upto |-> IF e < r.next THEN r.data[e]
                                      ELSE new[e - r.next + 1]]]

Create(r, components) == CreateAll(r, <<components>>)

Destroy(r, gone) == [r EXCEPT !.valid = @ \ gone]

(* addComponent, removeComponent and writes through getComponent: they ask *)
(* for no valid entity.                                                    *)
Put(r, e, components) == [r EXCEPT !.data[e] = components]

(* view<...>: the valid entities that have the components of these kinds.  *)
View(r, kinds) == {e \in r.valid : r.data[e].kind \in kinds}
=============================================================================
