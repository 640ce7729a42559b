------------------------------ MODULE InetAddr ------------------------------
(***************************************************************************)
(* Network numbers and internet addresses (src/inet/i_net.c, i_netof.c,    *)
(* i_lnaof.c, i_mkaddr.c).  An address is its four bytes, in the order of  *)
(* the network; its first byte says how many of them are the network's:    *)
(* one in class A, two in class B, three in any other.                     *)
(***************************************************************************)
EXTENDS Naturals, Sequences

Byte == 0 .. 255
InAddr == [1 .. 4 -> Byte]

INADDR_NONE == "INADDR_NONE"

\* Numbers of two and of three bytes, and the bytes of a number.
Of2(a, b) == 256 * a + b
Of3(a, b, c) == 65536 * a + 256 * b + c

Byte1(n) == n % 256
Byte2(n) == (n \div 256) % 256
Byte3(n) == (n \div 65536) % 256

IN_CLASSA(in) == in[1] < 128
IN_CLASSB(in) == in[1] \in 128 .. 191

inet_netof(in) ==
    IF IN_CLASSA(in) THEN in[1]
    ELSE IF IN_CLASSB(in) THEN Of2(in[1], in[2])
    ELSE Of3(in[1], in[2], in[3])

inet_lnaof(in) ==
    IF IN_CLASSA(in) THEN Of3(in[2], in[3], in[4])
    ELSE IF IN_CLASSB(in) THEN Of2(in[3], in[4])
    ELSE in[4]

\* What inet_makeaddr() takes for a number of class A, and of A or B.
NetA(net) == net < 128
NetAB(net) == net < 65536

(***************************************************************************)
(* inet_makeaddr() of network numbers below 2^24, which are all that       *)
(* inet_netof() returns; of any other number the code makes net | host.    *)
(***************************************************************************)
inet_makeaddr(net, host) ==
    IF NetA(net) THEN <<net, Byte3(host), Byte2(host), Byte1(host)>>
    ELSE IF NetAB(net) THEN <<Byte2(net), Byte1(net), Byte2(host), Byte1(host)>>
    ELSE <<Byte3(net), Byte2(net), Byte1(net), Byte1(host)>>

(***************************************************************************)
(* inet_network() of the parts between the dots: of each only the last     *)
(* byte counts.                                                            *)
(***************************************************************************)
inet_network(parts) ==
    LET val[n \in 0 .. Len(parts)] ==
            IF n = 0 THEN 0 ELSE Of2(val[n - 1], parts[n] % 256)
    IN IF Len(parts) > 4 THEN INADDR_NONE ELSE val[Len(parts)]
=============================================================================
