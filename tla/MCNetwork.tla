-------------------------------- MODULE MCNetwork --------------------------------
EXTENDS Network

Own == {<<c, c>> : c \in Classes \ {"Frame"}}
Foreign == {<<"Beacon", "ProbeResponse">>, <<"ProbeRequest", "Beacon">>, <<"ControlFrame", "DataFrame">>}

F(field, index, v) == [id |-> field.id, index |-> index, v |-> v]

FromFrameSocket == {F(RadioTapFieldChannel, 0, 1), F(RadioTapFieldSignalLevel, 0, 1)}
FromMonitor ==
  {F(RadioTapFieldTsft, 0, 1), F(RadioTapFieldFlags, 0, 16), F(RadioTapFieldRate, 0, 1),
   F(RadioTapFieldChannel, 0, 1), F(RadioTapFieldSignalLevel, 0, 1), F(RadioTapFieldRxFlags, 0, 1),
   F(RadioTapFieldSignalLevel, 1, 1), F(RadioTapFieldAntenna, 1, 1)}
Damaged == {F(RadioTapFieldFlags, 0, 80), F(RadioTapFieldMcs, 0, 1)}
OfOurs == {F(RadioTapFieldRate, 0, 1), F(RadioTapFieldTxFlags, 0, 1), F(RadioTapFieldDataRetries, 0, 1)}

MCPairs == Own \cup Foreign
MCTagSets == {{}, {"Rates", "HtCaps"}, {"Ssid", "Rates", "Dsss", "WmmWme"}}
A(h, lost) == [header |-> h, lost |-> lost]
MCArrivals == {A(FromFrameSocket, 0), A(FromMonitor, 0), A(Damaged, 0), A(OfOurs, 0),
               A(FromFrameSocket, 7), A(FromMonitor, 20)}
MCAddedTags == {3}
MCMaxFrames == [c \in Classes |-> IF c \in {"Beacon", "ProbeRequest", "ControlFrame", "QosData"} THEN 2 ELSE 1]

MCEtherPairs == {"ETHER", "ETHER2"} \X {"ETHER", "ETHER2", "LLC", "VLAN"}
MCLengths == {46, 1499, 1500}
MCProtos == {0, 2048, 33024, 37120}
D(lost, padded) == [lost |-> lost, padded |-> padded]
MCDeliveries == {D(0, FALSE), D(0, TRUE), D(1, FALSE), D(2, FALSE), D(3, FALSE), D(8, FALSE)}
=============================================================================
