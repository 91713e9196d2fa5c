----------------------------- MODULE MCStartUp ------------------------------
EXTENDS StartUp

\* Around every limit the checks name, the buffers have and a uint8_t counts to.
Rcopies ==
    [local : {1, 1001}, remote : {1, 1000, 1001}, file : {Unset, 0, 1, 1490, 2000},
     size : {-1, 399, 400, 1400, 1401, 1490}, rate : {-1, 100, 101},
     window : {-1, 0, 1, 255, 256}, found : BOOLEAN, port : {70000}]
Servers == [rate : {-1, 0, 100}, port : {0, 4464, 70000}]
Ports == {Unset, Empty, 9000, 65536}
=============================================================================
