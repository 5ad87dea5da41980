---------------------------- MODULE MCTransport ----------------------------
(* Model of Transport for TLC: the call sequences of the drivers. *)
EXTENDS Transport

C(op, t) == [op |-> op, t |-> t]

\* prepare_transport for both transports, then establish_connection
\* (transport.rs:583-706): one task drives both transports in turn and
\* awaits promise_1 before it polls promise_2.
TestDrivers == {"test"}
TestScript == [d \in TestDrivers |->
    << C("Start", Offerer), C("ApplyCallback", Offerer),
       C("Start", Answerer), C("ApplyCallback", Answerer),
       C("CreateSdp", Offerer), C("FinishHandshakeInfo", Offerer),
       C("SetRemoteSdp", Answerer), C("SetPubkey", Answerer),
       C("CreateSdp", Answerer), C("FinishHandshakeInfo", Answerer),
       C("SetRemoteSdp", Offerer), C("SetPubkey", Offerer),
       C("ConnectPromise", Offerer), C("ConnectPromise", Answerer),
       C("PollPromise", Offerer), C("PollPromise", Answerer) >>]

\* prepare_transport's ICE server (transport.rs:587).
TestIceUrls == {UrlText("stun", TRUE, "", "", "stun.l.google.com", "19302", "")}

\* URLs a node may be configured with: input a of test_parsing
\* (ice_server.rs:155-159), which from_str accepts, and input e, whose
\* scheme it rejects, so that start fails before building a peer connection.
NodeIceUrls ==
    { UrlText("stun", TRUE, "foo", "bar", "stun.l.google.com", "19302", ""),
      UrlText("http", TRUE, "ryan", "", "ethereum.org", "", "/nginx/v2") }

\* Two nodes, each driving its own transport: the offering node creates the
\* offer and later registers the answer; the answering node registers the
\* offer, answers and waits (the ConnectNode path of handler.rs:80-105);
\* once connected, each waits for its data channel to open (spec 4.G:
\* "then wait for data channel") and sends one message over it.
NodeDrivers == {"offering", "answering"}
NodeScript == [d \in NodeDrivers |->
    IF d = "offering"
    THEN << C("Start", Offerer), C("ApplyCallback", Offerer),
            C("CreateSdp", Offerer), C("FinishHandshakeInfo", Offerer),
            C("SetRemoteSdp", Offerer), C("SetPubkey", Offerer),
            C("ConnectPromise", Offerer), C("PollPromise", Offerer),
            C("DcWait", Offerer), C("DcPoll", Offerer), C("Send", Offerer) >>
    ELSE << C("Start", Answerer), C("ApplyCallback", Answerer),
            C("SetRemoteSdp", Answerer), C("SetPubkey", Answerer),
            C("CreateSdp", Answerer), C("FinishHandshakeInfo", Answerer),
            C("ConnectPromise", Answerer), C("PollPromise", Answerer),
            C("DcWait", Answerer), C("DcPoll", Answerer), C("Send", Answerer) >>]

=============================================================================
