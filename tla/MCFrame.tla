------------------------------- MODULE MCFrame -------------------------------
(* A main function with arrays and slots, and functions whose parameters go  *)
(* into registers and onto the stack, of one kind and mixed, one of them     *)
(* recursive, with frames an immediate operand can and cannot hold.          *)
EXTENDS Frame

Times_(n, kind) == [i \in 1..n |-> kind]
Calling(fn, args) == [fn |-> fn, args |-> args, alone |-> FALSE]
Perhaps(fn, args) == [fn |-> fn, args |-> args, alone |-> TRUE]
Function(params, result, writes, arrays, slots, calls) ==
  [params |-> params, result |-> result, writes |-> writes, arrays |-> arrays, slots |-> slots, calls |-> calls]

Lists == {<<>>, Times_(4, "int"), Times_(7, "int"), <<"float", "int", "float">>,
          Times_(17, "float") \o Times_(5, "int") \o <<"float">>, Times_(5, "int") \o Times_(17, "float") \o <<"int">>}
Writes == {{0}, {1, 4}, {4, 5, FP, VREG(16)}, {4, VREG(0), VREG(16), VREG(17)}}
Frames == {<<<<>>, <<>> >>, <<<<4, 8>>, <<"int">> >>, <<<<1028>>, <<"const", "float">> >>, <<<<4100>>, <<"int", "float">> >>}

Main(calls) == Function(<<>>, "int", {4, 6, FP, VREG(16)}, <<12>>, <<"float", "int">>, calls)
MCPrograms ==
  {<<Main(<<Calling(2, l)>>), Function(l, "int", w, f[1], f[2], c)>> :
     l \in Lists, w \in Writes, f \in Frames, c \in {<<>>, <<Calling(0, Times_(6, "int"))>>}}
    \cup {<<Main(<<Calling(2, l), Calling(0, <<>>), Calling(3, <<"int">>)>>),
            Function(l, "float", w, f[1], f[2], <<Calling(3, <<"int">>), Perhaps(2, l)>>),
            Function(<<"int">>, "void", {4, 5}, <<>>, <<>>, <<>>)>> :
            l \in Lists, w \in Writes, f \in Frames}
=============================================================================
