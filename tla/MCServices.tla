------------------------------ MODULE MCServices ------------------------------
(* An instance of Services for TLC.                                          *)
EXTENDS Services

CONSTANTS s1, s2, s3, agent1, agent2, hello, bye, v1, v2

MCAgentOf == [s \in {s1, s2, s3} |-> IF s = s3 THEN agent2 ELSE agent1]
MCPhraseSize == [x \in {hello, bye} |-> IF x = bye THEN 1 ELSE 2]
MCPool == <<"voice_1", "voice_2">>
MCBridgeOf == [v \in {v1, v2} |-> "gateway"]
=============================================================================
