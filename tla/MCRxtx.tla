------------------------------- MODULE MCRxtx -------------------------------
(* Each request that selects a mode, then each kind that may meet it running. *)
EXTENDS Rxtx, HostCommands
First == {Out(op, 0, 0) : op \in {"RX_SYMBOLS", "BTLE_SNIFFING", "BTLE_PROMISC", "TX_TEST", "BTLE_SLAVE",
                                  "REPEATER", "TX_SYMBOLS", "TX_GENERIC_PACKET", "EGO", "XMAS", "RX_GENERIC",
                                  "RANGE_TEST", "AFH", "FLASH"}}
         \cup {Out("SPECAN", 2402, 2480), Out("LED_SPECAN", 200, 0), OutData("START_HOPPING", 0, 6, 0)}
Second == {Out(op, 0, 0) : op \in {"STOP", "RX_SYMBOLS", "BTLE_SNIFFING", "TX_GENERIC_PACKET", "RESET"}}
          \cup {Out("SPECAN", 2402, 2480), Out("SET_CHANNEL", 9999, 0)}
MCScript == <<First, Second>>
=============================================================================
