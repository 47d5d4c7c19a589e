---------------------------- MODULE MCDisplayOutput ----------------------------
EXTENDS DisplayOutput

\* HDR and colour adjustment share no state, so no device has both.
MCDevices == {[hdr |-> TRUE, adjust |-> FALSE], [hdr |-> FALSE, adjust |-> TRUE]}

Hdr4     == <<227, 6, 4, 0>>               \* ST2084, no luminances
HdrFull  == <<230, 6, 12, 0, 96, 0, 3>>    \* ST2084 and HLG, with luminances
HdrShort == <<226, 6, 4>>                  \* too short to be read
Video    == <<35, 9, 7, 7>>
Lookalike == <<227, 5, 227, 6>>            \* colorimetry with an HDR tag in its payload
DataBlocks == {Hdr4, HdrFull, HdrShort, Video, Lookalike}

Block(cta, data) == [cta |-> cta, data |-> data]
OneBlock  == {<<Block(TRUE, a)>> : a \in DataBlocks}
TwoBlocks == {<<Block(TRUE, a \o b)>> : a \in {HdrFull, HdrShort, Lookalike}, b \in {Hdr4, Video}}
MCEdids   == {<<>>, <<Block(FALSE, Hdr4)>>, <<Block(TRUE, Hdr4), Block(TRUE, HdrFull)>>}
               \cup OneBlock \cup TwoBlocks
MCSpares  == {<<Block(TRUE, Video)>>, <<Block(TRUE, Hdr4)>>}

Text(d) == Append(d, Newline)
Preset(s, h, b, c) == [saturation |-> s, hue |-> h, brightness |-> b, contrast |-> c]
MCPresets ==
  {Preset(Absent, Absent, Absent, Absent),
   Preset(Text(<<7, 5>>), Text(<<5>>), Text(<<0>>), Text(<<0>>)),
   Preset(Text(<<1, 0, 0>>), Text(<<3, 5, 9>>), Text(<<2, 5, 5>>), Text(<<6, 4>>)),
   Preset(Text(<<1, 3, 0>>), Text(<<4, 0>>), Text(<<0>>), Text(<<2, 5, 5>>)),
   Preset(<<>>, Text(<<9, 0>>), Text(<<2, 5, 6>>), Text(<<Minus, 1>>)),
   Preset(Absent, <<>>, <<>>, Text(<<1>>))}

MCMetadata == {[cll |-> 400, redX |-> 708]}
================================================================================
