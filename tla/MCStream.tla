------------------------------ MODULE MCStream ------------------------------
(* Bytes of one bit and integers of two bytes, so that lengths wrap at 4. *)
EXTENDS Stream

Msg(name, flags, data) == [name |-> name, flags |-> flags, data |-> data]

MCSender == {"a", "b", "c"}

(* Two ordinary messages and one without data, or one whose length does not *)
(* fit its field.                                                           *)
MCSends ==
    {[s \in MCSender |-> CASE s = "a" -> Msg(<<1>>, 1, <<1, 0, 1>>)
                          [] s = "b" -> Msg(<<0, 1>>, 0, b)
                          [] s = "c" -> Msg(<<0>>, 2, <<>>)] : b \in {<<1>>, <<1, 0, 1, 1, 0>>}}

MCDialler == <<2, 1, 3>>

=============================================================================
