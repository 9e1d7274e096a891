------------------------------ MODULE MCViews ------------------------------
(***************************************************************************)
(* Chains of movement operations on small tensors, of the kind that views  *)
(* can express.                                                            *)
(***************************************************************************)
EXTENDS Views

Vectors == {<<6>>, <<2, 2>>, <<2, 3>>, <<1, 4>>, <<2, 1, 2>>}

\* A reshape is one that strides can express.  A padded tensor is only permuted,
\* or, where nothing but its first dimension is padded, reshaped to a mask that
\* can be expressed.
Expressible(v, o) ==
    /\ v.mask # << >> =>
          \/ o[1] = "permute"
          \/ /\ o[1] = "reshape" /\ reshape_mask(v, o[2]).ok
             /\ \A i \in 2 .. Len(v.dims) : v.mask[i] = <<0, v.dims[i]>>
    /\ o[1] = "reshape" => view_reshape(v, o[2]) # NoView
=============================================================================
