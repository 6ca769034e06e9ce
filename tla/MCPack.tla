------------------------------- MODULE MCPack --------------------------------
(***************************************************************************)
(* Small instances of CencPackager: one protected stream under each scheme *)
(* and IV supply, and a clear one.                                         *)
(***************************************************************************)
EXTENDS PackagerContract

Tenc(version, ivSize, crypt, skip, iv) ==
    [version |-> version, isProtected |-> 1, ivSize |-> ivSize, kid |-> 1,
     crypt |-> crypt, skip |-> skip, constantIv |-> iv]
Vector(len, high) == [len |-> len, high |-> high, low |-> 0]
Protection(scheme, tenc) == {[scheme |-> scheme, tenc |-> tenc, key |-> 10]}
OneStream ==
    {[s \in {1} |-> Protection(x[1], x[2])] : x \in
        {<<"cenc", Tenc(0, 8, 0, 0, {})>>, <<"cbc1", Tenc(0, 16, 0, 0, {})>>,
         <<"cens", Tenc(1, 8, 1, 1, {})>>,
         <<"cbcs", Tenc(1, 0, 1, 1, {Vector(16, 7)})>>,
         <<"cbcs", Tenc(1, 0, 2, 0, {Vector(8, 7)})>>,
         <<"cbcs", [Tenc(1, 0, 1, 1, {}) EXCEPT !.isProtected = 0]>>}}
    \cup {[s \in {1} |-> {}]}
RotationIvs == {{}, {Vector(16, 7)}, {Vector(8, 9)}, {Vector(4, 7)}}
PacketMaps == {{}, {<<<<0, 5>>>>}, {<<<<0, 2>>, <<1, 2>>>>}, {<<<<5, 0>>, <<0, 0>>>>}}
KeyOptions == {[s \in {1} |-> Protection("cbcs", Tenc(1, 0, 1, 1, {Vector(16, 7)}))]}
=============================================================================
