-------------------------- MODULE MCNeighbourhood ---------------------------
(* Values for model checking Neighbourhood. *)
EXTENDS Neighbourhood

Default == [name |-> Unset, uuid |-> Unset, major |-> Unset, minor |-> Unset,
            power |-> Unset, interval |-> Unset, tx |-> Unset]

\* The defaults, each setting at and just past its limits, and two settings
\* wrong at once.
MCBuilds ==
    {Default}
    \cup {[Default EXCEPT !.name = n] : n \in {0, 1, 29, 30}}
    \cup {[Default EXCEPT !.interval = ms] : ms \in {19, 10240, 10241}}
    \cup {[Default EXCEPT !.tx = 1, !.major = Unparsable],
          [Default EXCEPT !.tx = 21],
          [Default EXCEPT !.uuid = Unparsable, !.power = -128],
          [Default EXCEPT !.power = 128],
          [Default EXCEPT !.minor = 65536]}

\* A beacon of two formats that rotates its frames.  Each fills a packet and
\* has a name the scanner cannot keep, one of them beside a name it can.
Unreadable(n) == [LocalName(n) EXCEPT !.utf8 = FALSE]
MCForeignFrames ==
    {{ServiceData("eddystone", "Eddystone-URL", 12), LocalName(5), Unreadable(6)},
     {Manufacturer("feasycom", "beac", 24), Unreadable(1)}}

=============================================================================
