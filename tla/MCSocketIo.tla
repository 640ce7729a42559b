----------------------------- MODULE MCSocketIo -----------------------------
(* An instance of SocketIo: each kind of VxD, buffers of one and two parts *)
(* that fit and do not fit the shared buffer.                              *)
EXTENDS SocketIo

MCSockets == {<<"wsock", 0>>, <<"csock", 0>>, <<"csock", 1>>}
MCLengths == {<<1>>, <<2>>, <<1, 1>>}
=============================================================================
