------------------------------- MODULE MCI2c -------------------------------
(* Bytes of three bits: an address of two, and words with every change of bit. *)
EXTENDS I2c

MCAddress == <<0, 1>>
MCWords   == {<<1, 0, 1>>, <<0, 0, 0>>}
MCWrites  == {<< <<1, 0, 1>> >>, << <<0, 0, 0>>, <<1, 0, 1>> >>}
=============================================================================
