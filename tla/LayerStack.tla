----------------------------- MODULE LayerStack -----------------------------
(***************************************************************************)
(* What a user of the layer stack may rely on, composites left out: a base *)
(* layout with layers on top of it, where deactivating a layer takes away  *)
(* its topmost activation and nothing else.  An activation may be refused  *)
(* (the memory is full), a deactivation of an inactive layer does nothing. *)
(***************************************************************************)
EXTENDS Naturals, Sequences

CONSTANTS Words, LayerOf(_)
VARIABLE layers     \* the activations, oldest first

Last(n) == {i \in DOMAIN layers :
              /\ LayerOf(layers[i]) = n
              /\ \A j \in DOMAIN layers : j > i => LayerOf(layers[j]) # n}

Init == layers = <<5>>

Activate(w) == layers' = Append(layers, w)

Deactivate(n) ==
  \E i \in Last(n) :
    layers' = SubSeq(layers, 1, i - 1) \o SubSeq(layers, i + 1, Len(layers))

\* Replace the base layout: the oldest word, when there is one.
Rebase(n) == layers # << >> /\ layers' = [layers EXCEPT ![1] = n]

ToBase == layers # << >> /\ layers' = <<layers[1]>>

Reset == layers' = <<5>>

Next ==
  \/ \E w \in Words : Activate(w) \/ Deactivate(LayerOf(w)) \/ Rebase(w)
  \/ ToBase
  \/ Reset

Spec == Init /\ [][Next]_layers
=============================================================================
