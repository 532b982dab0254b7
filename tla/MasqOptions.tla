----------------------------- MODULE MasqOptions -----------------------------
(***************************************************************************)
(* The options of a DHCPv4 reply (rfc2131.c): do_options chooses them from *)
(* the defaults, the configuration and what the client asked for, and      *)
(* free_space places each in the options area of the packet or, when that  *)
(* is full, in the file or sname field if they are unused ("overload").    *)
(* An option is its code and the length of its data; one step places one.  *)
(***************************************************************************)
EXTENDS Naturals, Sequences, FiniteSets, SequencesExt

CONSTANT Replies    \* the replies to build, see NoReply

VARIABLES reply,   \* what the reply is made from
          pkt,     \* the packet
          todo     \* the part of do_options being done, and its options to place

optvars == <<reply, pkt, todo>>

Opt(c, len) == [c |-> c, len |-> len, class |-> "none"]
MaxOption == 255
FileSize == 128
SnameSize == 64

(* o, f, s are the options in the options area and the file and sname      *)
(* fields; file and sname say that a name is there, hack that both fields  *)
(* are made to look used; vendor are the vendor options to send.           *)
NoPacket == [o |-> <<>>, f |-> <<>>, s |-> <<>>, file |-> FALSE, sname |-> FALSE,
             hack |-> FALSE, over |-> {}, end |-> 0, size |-> 0, refused |-> {},
             vendor |-> {}, done_vendor_class |-> FALSE,
             spilled |-> FALSE, wrapped |-> FALSE]

(* list: the client sent a list, req, of the options it wants; first: what *)
(* dhcp_reply puts in before do_options; default: the defaults known, with *)
(* their lengths; class: the client's vendor class; tag_if: the tags set   *)
(* by other tags.  Two kinds of reply to PXE clients, "item" and "proxy",  *)
(* do without do_options and without the tags of an address range.         *)
NoReply == [kind |-> "options", list |-> FALSE, req |-> {}, space |-> 0, agent |-> 0, tags |-> {}, range |-> {}, tag_if |-> <<>>,
            first |-> <<>>, boots |-> <<>>, default |-> <<>>, fqdn |-> "none",
            no_override |-> FALSE, null_term |-> FALSE, class |-> [name |-> "none", len |-> 0],
            pxe |-> [on |-> FALSE, uuid |-> FALSE, menu |-> <<>>], opts |-> <<>>]

OptionsInit == reply = NoReply /\ pkt = NoPacket /\ todo = [at |-> "off", list |-> <<>>]
-----------------------------------------------------------------------------
NoTag == [all |-> {}, none |-> {}]

match_netid(check, pool, tagnotneeded) ==
  /\ check = NoTag => tagnotneeded
  /\ check.all \subseteq pool
  /\ check.none \cap pool = {}

(* run_tag_if: a --tag-if sets more tags when its own match; later ones    *)
(* see them.                                                               *)
run_tag_if(r, tags) ==
  FoldLeft(LAMBDA t, e : IF match_netid(e.tag, t, TRUE) THEN t \cup e.set ELSE t, tags, r.tag_if)

(* option_filter: the plain options that apply (DHOPT_TAGOK).  Options     *)
(* tagged for the client come before one tagged for the address range, and *)
(* both before one without a tag.                                          *)
option_filter(r) ==
  LET opts == r.opts
      range == r.range
      plain == {k \in DOMAIN opts : opts[k].kind = "plain"}
      tags == run_tag_if(r, r.tags)
      all == run_tag_if(r, r.tags \cup range)
      one == {k \in plain : /\ match_netid(opts[k].tag, tags, FALSE)
                            /\ match_netid(opts[k].tag, all, FALSE)}
      two == {k \in plain \ one : range # {} /\ match_netid(opts[k].tag, all, FALSE)}
      First(set, over) == {k \in set : ~\E l \in over \cup {j \in set : j < k} :
                                          opts[l].c = opts[k].c}
      tagged == one \cup First(two, one)
  IN tagged \cup First({k \in plain : opts[k].tag = NoTag}, tagged)

TagIf(r) == run_tag_if(r, IF r.kind = "options" THEN r.tags \cup r.range ELSE r.tags)
tagif == TagIf(reply)
TagOk == option_filter(reply)
option_find2(c) == \E k \in TagOk : reply.opts[k].c = c

(* in_list: without a list of requested options everything is sent. *)
in_list(c) == reply.list => c \in reply.req

(* do_opt: the length of an option's data; strings may get a final zero. *)
WithZero(len, null_term) == IF null_term /\ len # MaxOption THEN len + 1 ELSE len
do_opt(o, null_term) == WithZero(o.len, o.str /\ null_term)

(* dhcp_skip_opts: the length of the options in an area. *)
dhcp_skip_opts(area) == FoldLeft(LAMBDA n, e : n + e.len + 2, 0, area)

(* option_find: an option is seen only where it lies within its area, and  *)
(* in the fields only if the overload option says they hold options.       *)
option_find1(area, size, c) ==
  \E k \in DOMAIN area : area[k].c = c /\ dhcp_skip_opts(SubSeq(area, 1, k)) <= size
option_find(p, c) ==
  \/ option_find1(p.o, p.size, c)
  \/ /\ option_find1(p.o, p.size, "overload")
     /\ \/ 1 \in p.over /\ option_find1(p.f, FileSize, c)
        \/ 2 \in p.over /\ option_find1(p.s, SnameSize, c)
-----------------------------------------------------------------------------
(* free_space: where an option goes.  The sname field is taken to be as    *)
(* long as the file field (spilled), and the length is stored in one byte  *)
(* (wrapped).                                                              *)
find_overload(p) == \E k \in DOMAIN p.o : p.o[k].c = "overload"
FileFree(p) == ~p.file /\ ~p.hack /\ p.f = <<>>
SnameFree(p) == ~p.sname /\ ~p.hack /\ p.s = <<>>

Overload(p) == IF ~find_overload(p) /\ (FileFree(p) \/ SnameFree(p))
               THEN [p EXCEPT !.o = Append(@, Opt("overload", 1))] ELSE p
UseField(p, free, bit) == IF find_overload(p) /\ free THEN [p EXCEPT !.over = @ \cup {bit}] ELSE p

InField(p, e) ==
  LET p1 == UseField(Overload(p), FileFree(p), 1)
      p2 == UseField(p1, SnameFree(p), 2)
      Fits(area) == dhcp_skip_opts(area) + e.len + 3 < FileSize
  IN CASE 1 \in p1.over /\ Fits(p.f) -> [p1 EXCEPT !.f = Append(@, e)]
       [] ~(1 \in p1.over /\ Fits(p.f)) /\ 2 \in p2.over /\ Fits(p.s) ->
            [p2 EXCEPT !.s = Append(@, e),
                       !.spilled = @ \/ dhcp_skip_opts(p.s) + e.len + 3 > SnameSize]
       [] OTHER -> [p2 EXCEPT !.refused = @ \cup {e}]

free_space(p, e) ==
  LET q == IF dhcp_skip_opts(p.o) + e.len + 3 < p.end THEN [p EXCEPT !.o = Append(@, e)]
           ELSE InField(p, e)
  IN [q EXCEPT !.wrapped = @ \/ (e.len > MaxOption /\ e \notin q.refused)]
-----------------------------------------------------------------------------
(* match_vendor_opts: the options for the vendor class a packet names. *)
match_vendor_opts(opts, class) ==
  {k \in DOMAIN opts : opts[k].kind = "vendor" /\ class # "none" /\ opts[k].class \in {"any", class}}

(* find_boot: the boot names to use, a tagged entry before an untagged one; *)
(* found is false if no entry applies.                                      *)
find_boot(r) ==
  LET Of(tagnotneeded) == SelectInSeq(r.boots,
        LAMBDA b : match_netid(b.tag, TagIf(r), tagnotneeded))
      k == IF Of(FALSE) # 0 THEN Of(FALSE) ELSE Of(TRUE)
  IN IF k = 0 THEN [found |-> FALSE, sname |-> 0, filename |-> 0]
     ELSE [found |-> TRUE, sname |-> r.boots[k].sname, filename |-> r.boots[k].filename]

(* clear_packet, and the names in the fields of the replies to PXE clients. *)
OptionsStart ==
  /\ todo.at = "off"
  /\ \E r \in Replies :
       /\ reply' = r
       /\ pkt' = [NoPacket EXCEPT !.end = r.space,
                    !.vendor = match_vendor_opts(r.opts, r.class.name),
                    !.file = r.kind = "item" \/ (r.kind = "proxy" /\ find_boot(r).filename # 0)]
       /\ todo' = [at |-> "first", list |-> r.first]

(* One call of free_space.  When it is the configured vendor class that is *)
(* placed, the vendor options are chosen anew.                             *)
OptionPut ==
  /\ todo.list # <<>>
  /\ \E e \in {Head(todo.list)} : \E p \in {free_space(pkt, e)} :
       pkt' = IF e.c # "vendor-id" \/ todo.at # "config" \/ e \in p.refused THEN p
              ELSE [p EXCEPT !.vendor = match_vendor_opts(reply.opts, e.class),
                             !.done_vendor_class = TRUE]
  /\ todo' = [todo EXCEPT !.list = Tail(@)]
  /\ UNCHANGED reply

Ready(at) == todo.at = at /\ todo.list = <<>>
Then(at, list) == todo' = [at |-> at, list |-> list] /\ UNCHANGED reply

(* The boot names go as options if the client asked for them, else into    *)
(* their fields; without a boot entry, configured options of the codes do. *)
AsOption(c) == reply.list /\ c \in reply.req /\ ~reply.no_override
InsteadOfOption(c) ==
  /\ ~(reply.list /\ c \in reply.req)
  /\ \E k \in TagOk : /\ reply.opts[k].c = c /\ ~reply.opts[k].force
                      /\ ~\E l \in TagOk : l < k /\ reply.opts[l].c = c
Booting == find_boot(reply).found
NameInField(c) == IF Booting THEN find_boot(reply)[c] # 0 /\ ~AsOption(c) ELSE InsteadOfOption(c)

BootOptions(boot) ==
  FoldLeft(LAMBDA l, c : IF boot[c] # 0 /\ AsOption(c)
                         THEN Append(l, Opt(c, WithZero(boot[c], TRUE))) ELSE l,
           <<>>, <<"sname", "filename">>)

BootNames ==
  /\ Ready("first") /\ reply.kind = "options"
  /\ Then("boot", BootOptions(find_boot(reply)))
  /\ pkt' = [pkt EXCEPT !.sname = NameInField("sname")]

(* The file name comes after the options for the names.  A client without  *)
(* a list gets no overload; else space is set aside for that option.       *)
FaultyReserve(p) == p

Reserve(p) == IF FileFree(p) \/ SnameFree(p) THEN [p EXCEPT !.end = @ - 3] ELSE p

Lengths == reply.default
FqdnLength ==
  Lengths["hostname"] + 3
    + (IF reply.fqdn = "wire" THEN 2 ELSE IF reply.null_term THEN 1 ELSE 0)
    + (IF "domainname" \in DOMAIN Lengths THEN Lengths["domainname"] + 1 ELSE 0)

Default(c) ==
  CASE c = "fqdn" -> Opt(c, FqdnLength)
    [] c \in {"domainname", "hostname"} -> Opt(c, WithZero(Lengths[c], reply.null_term))
    [] OTHER -> Opt(c, Lengths[c])

SendDefault(c) ==
  IF c = "fqdn" THEN reply.fqdn # "none" /\ "hostname" \in DOMAIN Lengths
  ELSE /\ c \in DOMAIN Lengths
       /\ c \in {"subnet-select", "netmask", "broadcast"} \/ in_list(c)
       /\ c = "subnet-select" \/ ~option_find2(c)

DefaultCodes == <<"subnet-select", "netmask", "broadcast", "router", "dns-server",
                  "domainname", "hostname", "fqdn">>

DefaultOptions ==
  /\ Ready("boot")
  /\ pkt' = Reserve([pkt EXCEPT !.file = NameInField("filename"),
                                !.hack = ~reply.list \/ reply.no_override])
  /\ Then("default", FoldLeft(LAMBDA l, c : IF SendDefault(c) THEN Append(l, Default(c)) ELSE l,
                              <<>>, DefaultCodes))

(* The configured options that apply and were asked for or are forced. *)
Prohibited == {"fqdn", "max-message", "overload", "pad", "end"}

SendConfig(k) ==
  LET o == reply.opts[k]
  IN /\ k \in TagOk
     /\ o.force \/ in_list(o.c)
     /\ o.c \notin Prohibited
     /\ o.c \in {"sname", "filename"} => Booting \/ ~InsteadOfOption(o.c)
     /\ ~(o.len = 0 /\ o.c \in ToSet(DefaultCodes) \ {"subnet-select", "fqdn"})
     /\ ~(reply.pxe.on /\ o.c = "vendor-id")

Chosen(set) == SelectSeq([k \in DOMAIN reply.opts |-> k], LAMBDA k : k \in set)

ConfigOption(o) ==
  [c |-> o.c, len |-> do_opt(o, reply.null_term \/ o.c \in {"sname", "filename"}),
   class |-> IF o.c = "vendor-id" THEN o.class ELSE "none"]

ConfigOptions ==
  /\ Ready("default")
  /\ Then("config", FoldLeft(LAMBDA l, k : Append(l, ConfigOption(reply.opts[k])), <<>>,
                             Chosen({k \in DOMAIN reply.opts : SendConfig(k)})))
  /\ UNCHANGED pkt
-----------------------------------------------------------------------------
(* do_encap_opts: options within options of the outer code, as few as hold *)
(* them; the last has an end mark.                                         *)
do_encap_opts(code, lens) ==
  LET Add(a, n) == IF a.enc_len + n + 2 <= MaxOption THEN [a EXCEPT !.enc_len = @ + n + 2]
                   ELSE [done |-> Append(a.done, Opt(code, a.enc_len)), enc_len |-> n + 2]
      all == FoldLeft(Add, [done |-> <<>>, enc_len |-> 0], lens)
  IN IF all.enc_len = 0 THEN all.done ELSE Append(all.done, Opt(code, all.enc_len + 1))

OptLengths(ks, null_term) == FoldLeft(LAMBDA l, k : Append(l, do_opt(reply.opts[k], null_term)), <<>>, ks)

(* The group an encapsulated option belongs to: the same outer option, or  *)
(* the same enterprise number; it is sent when its first member is met.    *)
Group(k) == {l \in DOMAIN reply.opts : /\ reply.opts[l].kind = reply.opts[k].kind
                                       /\ reply.opts[l].outer = reply.opts[k].outer}
Outer(o) == IF o.kind = "encap" THEN o.outer ELSE "vendor-ident"
EncapMatch(k) == {l \in Group(k) : /\ match_netid(reply.opts[l].tag, tagif, TRUE)
                                   /\ reply.opts[l].force \/ in_list(Outer(reply.opts[k]))}

EncapGroup(k) ==
  LET ks == Chosen(EncapMatch(k))
      total == FoldLeft(LAMBDA n, len : n + len + 2, 0, OptLengths(ks, FALSE))
  IN CASE ks = <<>> -> <<>>
       [] ks # <<>> /\ reply.opts[k].kind = "encap" ->
            do_encap_opts(reply.opts[k].outer, OptLengths(ks, reply.null_term))
       [] OTHER -> IF total > 250 THEN <<>> ELSE <<Opt("vendor-ident", total + 5)>>

EncapOptions ==
  /\ Ready("config")
  /\ Then("encap", FoldLeft(LAMBDA l, k : l \o EncapGroup(k), <<>>,
                            Chosen({k \in DOMAIN reply.opts : /\ reply.opts[k].kind \in {"encap", "vi"}
                                                              /\ \A l \in Group(k) : k <= l})))
  /\ UNCHANGED pkt
-----------------------------------------------------------------------------
pxe_misc == <<[Opt("vendor-id", 9) EXCEPT !.class = "PXEClient"]>>
              \o (IF reply.pxe.uuid THEN <<Opt("pxe-uuid", 17)>> ELSE <<>>)

prune_vendor_opts(ks) == {k \in ks : match_netid(reply.opts[k].tag, tagif, TRUE)}

(* pxe_opts: discovery control, prompt, servers and menu, unless the menu  *)
(* or the servers are too long.                                            *)
pxe_opts(ks) ==
  LET menu == reply.pxe.menu
      Step(a, s) == IF a.menu + s.menu + 3 >= MaxOption - 2 THEN [a EXCEPT !.toobig = TRUE]
                    ELSE IF s.server /\ a.servers + 7 >= MaxOption - 2 THEN [a EXCEPT !.toobig = TRUE]
                    ELSE [a EXCEPT !.menu = @ + s.menu + 3, !.servers = IF s.server THEN @ + 7 ELSE @]
      all == FoldLeft(Step, [menu |-> 0, servers |-> 0, toobig |-> FALSE], menu)
      prompt == IF \E k \in ks : reply.opts[k].c = "pxe-prompt" THEN <<>> ELSE <<4>>
      servers == IF all.servers = 0 THEN <<>> ELSE <<all.servers>>
  IN CASE all.toobig -> <<>>
       [] ~all.toobig /\ menu = <<>> -> <<1>> \o prompt
       [] OTHER -> <<1>> \o prompt \o servers \o <<all.menu>>

(* The replies to PXE clients: pxe_misc and the vendor options, after the  *)
(* boot item the client asked for or after the menu.                       *)
PxeItem ==
  /\ Ready("first") /\ reply.kind = "item"
  /\ \E ks \in {prune_vendor_opts(pkt.vendor)} :
       /\ pkt' = [pkt EXCEPT !.vendor = ks]
       /\ Then("vendor", pxe_misc \o do_encap_opts("vendor-encap", <<4>> \o OptLengths(Chosen(ks), FALSE)))

PxeProxy ==
  /\ Ready("first") /\ reply.kind = "proxy"
  /\ \E ks \in {prune_vendor_opts(pkt.vendor)} :
       /\ pkt' = [pkt EXCEPT !.vendor = ks]
       /\ Then("vendor", pxe_misc \o do_encap_opts("vendor-encap", pxe_opts(ks) \o OptLengths(Chosen(ks), FALSE)))

(* The vendor options of do_options; with them a client's own vendor class *)
(* is echoed unless a configured one was sent.                             *)
EchoClass(lens) ==
  IF lens # <<>> /\ ~reply.pxe.on /\ ~pkt.done_vendor_class /\ reply.class.len # 0
  THEN <<[Opt("vendor-id", reply.class.len) EXCEPT !.class = reply.class.name]>> ELSE <<>>

VendorOptions ==
  /\ Ready("encap")
  /\ \E ks \in {prune_vendor_opts(pkt.vendor)} :
     \E lens \in {(IF reply.pxe.on THEN pxe_opts(ks) ELSE <<>>) \o OptLengths(Chosen(ks), reply.null_term)} :
       /\ pkt' = [pkt EXCEPT !.vendor = ks]
       /\ Then("vendor",
            (IF reply.pxe.on THEN pxe_misc ELSE <<>>)
              \o (IF (\E k \in ks : reply.opts[k].force) \/ in_list("vendor-encap")
                  THEN do_encap_opts("vendor-encap", lens) \o EchoClass(lens) ELSE <<>>))

(* The end of do_options, and dhcp_packet_size: the agent's option goes    *)
(* behind the others, and an end mark into every area.                     *)
OptionsEnd ==
  /\ Ready("vendor")
  /\ pkt' = [pkt EXCEPT !.hack = FALSE, !.size = dhcp_skip_opts(pkt.o) + reply.agent + 1]
  /\ Then("done", <<>>)

OptionsNext ==
  \/ OptionsStart \/ OptionPut \/ BootNames \/ DefaultOptions \/ ConfigOptions
  \/ EncapOptions \/ PxeItem \/ PxeProxy \/ VendorOptions \/ OptionsEnd
-----------------------------------------------------------------------------
(* What dhcp_reply and the boot names put in before space is set aside for *)
(* the overload option; the replies to PXE clients never set any aside.    *)
EarlyOptionsFit ==
  IF reply.kind = "options"
  THEN dhcp_skip_opts(reply.first \o BootOptions(find_boot(reply))) + 5 < reply.space
  ELSE pkt.over = {}

Placed == pkt.o \o pkt.f \o pkt.s
PlacedCodes == {Placed[k].c : k \in DOMAIN Placed}
RefusedCodes == {e.c : e \in pkt.refused}

AreasSound ==
  /\ dhcp_skip_opts(pkt.o) + 1 <= reply.space
  /\ dhcp_skip_opts(pkt.f) + 1 <= FileSize
  /\ pkt.spilled \/ dhcp_skip_opts(pkt.s) + 1 <= SnameSize
  /\ ~(pkt.file /\ pkt.f # <<>>) /\ ~(pkt.sname /\ pkt.s # <<>>)
  /\ ~reply.list \/ reply.no_override => "overload" \notin PlacedCodes

OptionsFound == pkt.spilled \/ pkt.wrapped \/ \A c \in PlacedCodes : option_find(pkt, c)

AskedFor == {c \in reply.req : /\ c \in DOMAIN Lengths \/ \E k \in TagOk : reply.opts[k].c = c /\ reply.opts[k].len # 0
                               /\ ~(option_find2(c) /\ \E k \in TagOk : reply.opts[k].c = c /\ reply.opts[k].len = 0)}
Unasked == {"message-type", "server-id", "lease-time", "subnet-select", "netmask", "broadcast",
            "overload", "fqdn", "vendor-id", "pxe-uuid"}
              \cup {IF reply.opts[k].kind = "plain" THEN reply.opts[k].c
                    ELSE IF reply.opts[k].kind = "vendor" THEN "vendor-encap"
                    ELSE Outer(reply.opts[k]) : k \in {l \in DOMAIN reply.opts : reply.opts[l].force}}

AnswersRequest ==
  reply.kind = "options" /\ reply.list =>
    /\ AskedFor \subseteq PlacedCodes \cup RefusedCodes
    /\ PlacedCodes \subseteq reply.req \cup Unasked

RefusedForSpace ==
  \A e \in pkt.refused :
    /\ dhcp_skip_opts(pkt.o) + e.len + 3 >= pkt.end
    /\ 1 \in pkt.over => dhcp_skip_opts(pkt.f) + e.len + 3 >= FileSize
    /\ 2 \in pkt.over => dhcp_skip_opts(pkt.s) + e.len + 3 >= FileSize

ClassMatches ==
  "vendor-encap" \in PlacedCodes =>
    \A k \in DOMAIN Placed : Placed[k].c = "vendor-id" =>
      \A v \in pkt.vendor : reply.opts[v].class \in {"any", Placed[k].class}

(* A finished reply can be read: every area of the packet (rfc2131.c,      *)
(* free_space and dhcp_packet_size) has room for its options and end mark, *)
(* no field holds a name and options both, a client that sent no list gets *)
(* no overload, and option_find finds each option that was placed; what    *)
(* the client asked for is there or was refused for want of space, and     *)
(* what it did not ask for only if forced; vendor options go with the      *)
(* vendor class that is sent.  Left out are replies whose sname field was  *)
(* filled past its size and those with an option longer than 255 bytes.    *)
RepliesWellFormed ==
  todo.at = "done" /\ EarlyOptionsFit =>
    AreasSound /\ OptionsFound /\ AnswersRequest /\ RefusedForSpace /\ ClassMatches
=============================================================================
