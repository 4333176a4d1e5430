---------------------------- MODULE MCTransport ----------------------------
\* Two sources on one GPIB helper, local or through the hub; two sources apart;
\* a source with two ADCMT meters on the bus.
EXTENDS Transport
SharedBus(hub) == [port |-> [source |-> Bus, source2 |-> Bus], hub |-> hub, adc |-> {}]
Apart == [port |-> [source |-> Bus, source2 |-> "usb"], hub |-> FALSE, adc |-> {}]
TwoMeters == [port |-> [source |-> Bus, meter |-> Bus, reference |-> Bus], hub |-> FALSE,
              adc |-> {"meter", "reference"}]
FourBenches == {SharedBus(FALSE), SharedBus(TRUE), Apart, TwoMeters}
=============================================================================
