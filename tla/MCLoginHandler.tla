--------------------------- MODULE MCLoginHandler ---------------------------
(* Requests, lists and accounts for LoginHandler. *)
EXTENDS LoginHandler

MCAccountOf == [ann |-> 1, bob |-> 2, eve |-> 0]
MCPasswordOf == <<"x", "y">>

Text(length, encoded, value) == [length |-> length, encoded |-> encoded, value |-> value]

Login(email, password) ==
    [size |-> 145, opened |-> TRUE, version |-> 770, email |-> email, password |-> password]

Short(value) == Text(3, 3, value)

\* Good and bad credentials, and texts at and beyond their limits: what email and
\* password have room for, in both encodings, and the end of the block.
Logins ==
    { Login(Short("ann"), Short("x")), Login(Short("bob"), Short("x")),
      Login(Short("eve"), Short("x")), Login(Text(50, 50, "ann"), Text(29, 29, "x")),
      Login(Text(26, 51, "ann"), Short("x")), Login(Short("ann"), Text(30, 30, "x")),
      Login(Text(0, 0, ""), Short("x")), Login(Text(104, 104, "ann"), Text(3, 3, "x")),
      Login(Text(103, 103, "ann"), Text(3, 3, "x")), Login(Text(65535, 65535, "ann"), Short("x")),
      Login(Text(-1, 0, ""), Short("x")), Login(Short("ann"), Text(-1, 0, "")) }

MCRequests ==
    Logins \cup {[Login(Short("ann"), Short("x")) EXCEPT !.size = 144],
                 [Login(Short("ann"), Short("x")) EXCEPT !.opened = FALSE],
                 [Login(Short("ann"), Short("x")) EXCEPT !.version = 772]}

\* Lists around the sizes that pad the buffer to its end, and around max_characters.
MCLists ==
    { [count |-> n, text |-> t] : n \in {0}, t \in {0} } \cup
    { [count |-> n, text |-> n * t] : n \in {1, 26, 27, 50, 51, 255}, t \in {0, 58} } \cup
    { [count |-> 30, text |-> t] : t \in 1473 .. 1485 }

=============================================================================
