------------------------------ MODULE MCLptLink ------------------------------
(* Instances of LptLink for TLC: two values per nibble, so that an upper    *)
(* and a lower nibble, and a nibble and its predecessor, can be told apart. *)
EXTENDS LptLink

MCNibble == {0, 1}

\* A command without arguments (HELLO), one with arguments and a one-byte
\* reply (WRITE_BLOCK), one with arguments and a longer reply (READ_BLOCK);
\* <<1, 1>> stands for 0xff and the bytes that are no command.
MCCommand == {<<0, 0>>, <<0, 1>>, <<1, 0>>}

MCReqLen == [b \in MCNibble \X MCNibble |->
                CASE b = <<0, 1>> -> 3 [] b = <<1, 0>> -> 2 [] OTHER -> 1]

MCRepLen == [b \in MCNibble \X MCNibble |->
                CASE b = <<0, 0>> -> 2 [] b = <<0, 1>> -> 1
                  [] b = <<1, 0>> -> 3 [] OTHER -> 0]
=============================================================================
