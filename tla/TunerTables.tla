----------------------------- MODULE TunerTables -----------------------------
(***************************************************************************)
(* The tables of tda18271-maps.c and the functions that search them.  An   *)
(* entry is <<limit in kHz, value, ...>>; the terminating entries are left *)
(* out, the functions stop at the last one.  Frequencies are in Hz.        *)
(***************************************************************************)
EXTENDS Integers, Sequences

tda18271c1_main_pll == <<
    <<32000, 95, 240>>, <<35000, 94, 224>>, <<37000, 93, 208>>, <<41000, 92, 192>>,
    <<44000, 91, 176>>, <<49000, 90, 160>>, <<54000, 89, 144>>, <<61000, 88, 128>>,
    <<65000, 79, 120>>, <<70000, 78, 112>>, <<75000, 77, 104>>, <<82000, 76, 96>>,
    <<89000, 75, 88>>, <<98000, 74, 80>>, <<109000, 73, 72>>, <<123000, 72, 64>>,
    <<131000, 63, 60>>, <<141000, 62, 56>>, <<151000, 61, 52>>, <<164000, 60, 48>>,
    <<179000, 59, 44>>, <<197000, 58, 40>>, <<219000, 57, 36>>, <<246000, 56, 32>>,
    <<263000, 47, 30>>, <<282000, 46, 28>>, <<303000, 45, 26>>, <<329000, 44, 24>>,
    <<359000, 43, 22>>, <<395000, 42, 20>>, <<438000, 41, 18>>, <<493000, 40, 16>>,
    <<526000, 31, 15>>, <<564000, 30, 14>>, <<607000, 29, 13>>, <<658000, 28, 12>>,
    <<718000, 27, 11>>, <<790000, 26, 10>>, <<877000, 25, 9>>, <<987000, 24, 8>> >>

tda18271c2_main_pll == <<
    <<33125, 87, 240>>, <<35500, 86, 224>>, <<38188, 85, 208>>, <<41375, 84, 192>>,
    <<45125, 83, 176>>, <<49688, 82, 160>>, <<55188, 81, 144>>, <<62125, 80, 128>>,
    <<66250, 71, 120>>, <<71000, 70, 112>>, <<76375, 69, 104>>, <<82750, 68, 96>>,
    <<90250, 67, 88>>, <<99375, 66, 80>>, <<110375, 65, 72>>, <<124250, 64, 64>>,
    <<132500, 55, 60>>, <<142000, 54, 56>>, <<152750, 53, 52>>, <<165500, 52, 48>>,
    <<180500, 51, 44>>, <<198750, 50, 40>>, <<220750, 49, 36>>, <<248500, 48, 32>>,
    <<265000, 39, 30>>, <<284000, 38, 28>>, <<305500, 37, 26>>, <<331000, 36, 24>>,
    <<361000, 35, 22>>, <<397500, 34, 20>>, <<441500, 33, 18>>, <<497000, 32, 16>>,
    <<530000, 23, 15>>, <<568000, 22, 14>>, <<611000, 21, 13>>, <<662000, 20, 12>>,
    <<722000, 19, 11>>, <<795000, 18, 10>>, <<883000, 17, 9>>, <<994000, 16, 8>> >>

tda18271c1_cal_pll == <<
    <<33000, 221, 208>>, <<36000, 220, 192>>, <<40000, 219, 176>>, <<44000, 218, 160>>,
    <<49000, 217, 144>>, <<55000, 216, 128>>, <<63000, 211, 112>>, <<67000, 205, 104>>,
    <<73000, 204, 96>>, <<80000, 203, 88>>, <<88000, 202, 80>>, <<98000, 201, 72>>,
    <<110000, 200, 64>>, <<126000, 195, 56>>, <<135000, 189, 52>>, <<147000, 188, 48>>,
    <<160000, 187, 44>>, <<176000, 186, 40>>, <<196000, 185, 36>>, <<220000, 184, 32>>,
    <<252000, 179, 28>>, <<271000, 173, 26>>, <<294000, 172, 24>>, <<321000, 171, 22>>,
    <<353000, 170, 20>>, <<392000, 169, 18>>, <<441000, 168, 16>>, <<505000, 163, 14>>,
    <<543000, 157, 13>>, <<589000, 156, 12>>, <<642000, 155, 11>>, <<707000, 154, 10>>,
    <<785000, 153, 9>>, <<883000, 152, 8>>, <<1010000, 147, 7>> >>

tda18271c2_cal_pll == <<
    <<33813, 221, 208>>, <<36625, 220, 192>>, <<39938, 219, 176>>, <<43938, 218, 160>>,
    <<48813, 217, 144>>, <<54938, 216, 128>>, <<62813, 211, 112>>, <<67625, 205, 104>>,
    <<73250, 204, 96>>, <<79875, 203, 88>>, <<87875, 202, 80>>, <<97625, 201, 72>>,
    <<109875, 200, 64>>, <<125625, 195, 56>>, <<135250, 189, 52>>, <<146500, 188, 48>>,
    <<159750, 187, 44>>, <<175750, 186, 40>>, <<195250, 185, 36>>, <<219750, 184, 32>>,
    <<251250, 179, 28>>, <<270500, 173, 26>>, <<293000, 172, 24>>, <<319500, 171, 22>>,
    <<351500, 170, 20>>, <<390500, 169, 18>>, <<439500, 168, 16>>, <<502500, 163, 14>>,
    <<541000, 157, 13>>, <<586000, 156, 12>>, <<639000, 155, 11>>, <<703000, 154, 10>>,
    <<781000, 153, 9>>, <<879000, 152, 8>> >>

tda18271_bp_filter == <<
    <<62000, 0>>, <<84000, 1>>, <<100000, 2>>, <<140000, 3>>, <<170000, 4>>,
    <<180000, 5>>, <<865000, 6>> >>

tda18271c1_km == <<
    <<61100, 116>>, <<350000, 64>>, <<720000, 48>>, <<865000, 64>> >>

tda18271c2_km == <<
    <<47900, 56>>, <<61100, 68>>, <<350000, 48>>, <<720000, 36>>, <<865000, 60>> >>

tda18271_rf_band == <<
    <<47900, 0>>, <<61100, 1>>, <<152600, 2>>, <<164700, 3>>, <<203500, 4>>,
    <<457800, 5>>, <<865000, 6>> >>

tda18271_gain_taper == <<
    <<45400, 31>>, <<45800, 30>>, <<46200, 29>>, <<46700, 28>>, <<47100, 27>>,
    <<47500, 26>>, <<47900, 25>>, <<49600, 23>>, <<51200, 22>>, <<52900, 21>>,
    <<54500, 20>>, <<56200, 19>>, <<57800, 18>>, <<59500, 17>>, <<61100, 16>>,
    <<67600, 13>>, <<74200, 12>>, <<80700, 11>>, <<87200, 10>>, <<93800, 9>>,
    <<100300, 8>>, <<106900, 7>>, <<113400, 6>>, <<119900, 5>>, <<126500, 4>>,
    <<133000, 3>>, <<139500, 2>>, <<146100, 1>>, <<152600, 0>>, <<154300, 31>>,
    <<156100, 30>>, <<157800, 29>>, <<159500, 28>>, <<161200, 27>>, <<163000, 26>>,
    <<164700, 25>>, <<170200, 23>>, <<175800, 22>>, <<181300, 21>>, <<186900, 20>>,
    <<192400, 19>>, <<198000, 18>>, <<203500, 17>>, <<216200, 20>>, <<228900, 19>>,
    <<241600, 18>>, <<254400, 17>>, <<267100, 16>>, <<279800, 15>>, <<292500, 14>>,
    <<305200, 13>>, <<317900, 12>>, <<330700, 11>>, <<343400, 10>>, <<356100, 9>>,
    <<368800, 8>>, <<381500, 7>>, <<394200, 6>>, <<406900, 5>>, <<419700, 4>>,
    <<432400, 3>>, <<445100, 2>>, <<457800, 1>>, <<476300, 25>>, <<494800, 24>>,
    <<513300, 23>>, <<531800, 22>>, <<550300, 21>>, <<568900, 20>>, <<587400, 19>>,
    <<605900, 18>>, <<624400, 17>>, <<642900, 16>>, <<661400, 15>>, <<679900, 14>>,
    <<698400, 13>>, <<716900, 12>>, <<735400, 11>>, <<753900, 10>>, <<772500, 9>>,
    <<791000, 8>>, <<809500, 7>>, <<828000, 6>>, <<846500, 5>>, <<865000, 4>> >>

tda18271c1_rf_cal == <<
    <<41000, 30>>, <<43000, 48>>, <<45000, 67>>, <<46000, 77>>, <<47000, 84>>,
    <<47900, 100>>, <<49100, 32>>, <<50000, 34>>, <<51000, 42>>, <<53000, 50>>,
    <<55000, 53>>, <<56000, 60>>, <<57000, 63>>, <<58000, 72>>, <<59000, 77>>,
    <<60000, 88>>, <<61100, 95>> >>

tda18271c2_rf_cal == <<
    <<41000, 15>>, <<43000, 28>>, <<45000, 47>>, <<46000, 57>>, <<47000, 64>>,
    <<47900, 80>>, <<49100, 22>>, <<50000, 24>>, <<51000, 32>>, <<53000, 40>>,
    <<55000, 43>>, <<56000, 50>>, <<57000, 53>>, <<58000, 62>>, <<59000, 67>>,
    <<60000, 78>>, <<61100, 85>>, <<63000, 15>>, <<64000, 17>>, <<65000, 18>>,
    <<66000, 21>>, <<67000, 22>>, <<68000, 23>>, <<70000, 25>>, <<71000, 28>>,
    <<72000, 29>>, <<73000, 31>>, <<74000, 32>>, <<75000, 33>>, <<76000, 36>>,
    <<77000, 37>>, <<78000, 39>>, <<80000, 40>>, <<81000, 41>>, <<82000, 45>>,
    <<83000, 46>>, <<84000, 47>>, <<85000, 49>>, <<86000, 51>>, <<87000, 52>>,
    <<88000, 53>>, <<89000, 55>>, <<90000, 56>>, <<91000, 57>>, <<93000, 60>>,
    <<94000, 62>>, <<95000, 63>>, <<96000, 64>>, <<97000, 66>>, <<99000, 69>>,
    <<100000, 70>>, <<102000, 72>>, <<103000, 74>>, <<105000, 77>>, <<106000, 78>>,
    <<107000, 80>>, <<108000, 81>>, <<110000, 84>>, <<111000, 86>>, <<112000, 87>>,
    <<113000, 88>>, <<114000, 89>>, <<115000, 92>>, <<116000, 93>>, <<117000, 95>>,
    <<119000, 96>>, <<120000, 100>>, <<121000, 101>>, <<122000, 102>>, <<123000, 104>>,
    <<124000, 105>>, <<125000, 108>>, <<126000, 109>>, <<127000, 110>>, <<128000, 112>>,
    <<129000, 113>>, <<130000, 117>>, <<131000, 119>>, <<132000, 120>>, <<133000, 123>>,
    <<134000, 126>>, <<135000, 129>>, <<136000, 130>>, <<137000, 135>>, <<138000, 136>>,
    <<139000, 141>>, <<140000, 142>>, <<141000, 145>>, <<142000, 149>>, <<143000, 154>>,
    <<144000, 157>>, <<145000, 161>>, <<146000, 162>>, <<147000, 164>>, <<148000, 169>>,
    <<149000, 174>>, <<150000, 176>>, <<151000, 177>>, <<152000, 183>>, <<152600, 189>>,
    <<154000, 32>>, <<155000, 34>>, <<156000, 36>>, <<157000, 37>>, <<158000, 39>>,
    <<159000, 41>>, <<160000, 44>>, <<161000, 45>>, <<163000, 46>>, <<164000, 47>>,
    <<164700, 48>>, <<166000, 17>>, <<167000, 18>>, <<168000, 19>>, <<169000, 20>>,
    <<170000, 21>>, <<172000, 22>>, <<173000, 23>>, <<174000, 24>>, <<175000, 26>>,
    <<176000, 27>>, <<178000, 29>>, <<179000, 30>>, <<180000, 31>>, <<181000, 32>>,
    <<182000, 33>>, <<183000, 34>>, <<184000, 36>>, <<185000, 37>>, <<186000, 38>>,
    <<187000, 39>>, <<188000, 41>>, <<189000, 42>>, <<190000, 44>>, <<191000, 45>>,
    <<192000, 46>>, <<193000, 47>>, <<194000, 48>>, <<195000, 51>>, <<196000, 53>>,
    <<198000, 54>>, <<200000, 56>>, <<201000, 60>>, <<202000, 61>>, <<203500, 62>>,
    <<206000, 14>>, <<208000, 15>>, <<212000, 16>>, <<216000, 17>>, <<217000, 18>>,
    <<218000, 19>>, <<220000, 20>>, <<222000, 21>>, <<225000, 22>>, <<228000, 23>>,
    <<231000, 24>>, <<234000, 25>>, <<235000, 26>>, <<236000, 27>>, <<237000, 28>>,
    <<240000, 29>>, <<242000, 30>>, <<244000, 31>>, <<247000, 32>>, <<249000, 33>>,
    <<252000, 34>>, <<253000, 35>>, <<254000, 36>>, <<256000, 37>>, <<259000, 38>>,
    <<262000, 39>>, <<264000, 40>>, <<267000, 41>>, <<269000, 42>>, <<271000, 43>>,
    <<273000, 44>>, <<275000, 45>>, <<277000, 46>>, <<279000, 47>>, <<282000, 48>>,
    <<284000, 49>>, <<286000, 50>>, <<287000, 51>>, <<290000, 52>>, <<293000, 53>>,
    <<295000, 54>>, <<297000, 55>>, <<300000, 56>>, <<303000, 57>>, <<305000, 58>>,
    <<306000, 59>>, <<307000, 60>>, <<310000, 61>>, <<312000, 62>>, <<315000, 63>>,
    <<318000, 64>>, <<320000, 65>>, <<323000, 66>>, <<324000, 67>>, <<325000, 68>>,
    <<327000, 69>>, <<331000, 70>>, <<334000, 71>>, <<337000, 72>>, <<339000, 73>>,
    <<340000, 74>>, <<341000, 75>>, <<343000, 76>>, <<345000, 77>>, <<349000, 78>>,
    <<352000, 79>>, <<353000, 80>>, <<355000, 81>>, <<357000, 82>>, <<359000, 83>>,
    <<361000, 84>>, <<362000, 85>>, <<364000, 86>>, <<368000, 87>>, <<370000, 88>>,
    <<372000, 89>>, <<375000, 90>>, <<376000, 91>>, <<377000, 92>>, <<379000, 93>>,
    <<382000, 94>>, <<384000, 95>>, <<385000, 96>>, <<386000, 97>>, <<388000, 98>>,
    <<390000, 99>>, <<393000, 100>>, <<394000, 101>>, <<396000, 102>>, <<397000, 103>>,
    <<398000, 104>>, <<400000, 105>>, <<402000, 106>>, <<403000, 107>>, <<407000, 108>>,
    <<408000, 109>>, <<409000, 110>>, <<410000, 111>>, <<411000, 112>>, <<412000, 113>>,
    <<413000, 114>>, <<414000, 115>>, <<417000, 116>>, <<418000, 117>>, <<420000, 118>>,
    <<422000, 119>>, <<423000, 120>>, <<424000, 121>>, <<427000, 122>>, <<428000, 123>>,
    <<429000, 125>>, <<432000, 127>>, <<434000, 128>>, <<435000, 129>>, <<436000, 131>>,
    <<437000, 132>>, <<438000, 133>>, <<439000, 134>>, <<440000, 135>>, <<441000, 136>>,
    <<442000, 137>>, <<445000, 138>>, <<446000, 139>>, <<447000, 140>>, <<448000, 142>>,
    <<449000, 143>>, <<450000, 144>>, <<452000, 145>>, <<453000, 147>>, <<454000, 148>>,
    <<456000, 150>>, <<457800, 152>>, <<461000, 17>>, <<468000, 18>>, <<472000, 19>>,
    <<473000, 20>>, <<474000, 21>>, <<481000, 22>>, <<486000, 23>>, <<491000, 24>>,
    <<498000, 25>>, <<499000, 26>>, <<501000, 27>>, <<506000, 28>>, <<511000, 29>>,
    <<516000, 30>>, <<520000, 31>>, <<521000, 32>>, <<525000, 33>>, <<529000, 34>>,
    <<533000, 35>>, <<539000, 36>>, <<541000, 37>>, <<547000, 38>>, <<549000, 39>>,
    <<551000, 40>>, <<556000, 41>>, <<561000, 42>>, <<563000, 43>>, <<565000, 44>>,
    <<569000, 45>>, <<571000, 46>>, <<577000, 47>>, <<580000, 48>>, <<582000, 49>>,
    <<584000, 50>>, <<588000, 51>>, <<591000, 52>>, <<596000, 53>>, <<598000, 54>>,
    <<603000, 55>>, <<604000, 56>>, <<606000, 57>>, <<612000, 58>>, <<615000, 59>>,
    <<617000, 60>>, <<621000, 61>>, <<622000, 62>>, <<625000, 63>>, <<632000, 64>>,
    <<633000, 65>>, <<634000, 66>>, <<642000, 67>>, <<643000, 68>>, <<647000, 69>>,
    <<650000, 70>>, <<652000, 71>>, <<657000, 72>>, <<661000, 73>>, <<662000, 74>>,
    <<665000, 75>>, <<667000, 76>>, <<670000, 77>>, <<673000, 78>>, <<676000, 79>>,
    <<677000, 80>>, <<681000, 81>>, <<683000, 82>>, <<686000, 83>>, <<688000, 84>>,
    <<689000, 85>>, <<691000, 86>>, <<695000, 87>>, <<698000, 88>>, <<703000, 89>>,
    <<704000, 90>>, <<705000, 91>>, <<707000, 92>>, <<710000, 93>>, <<712000, 94>>,
    <<717000, 95>>, <<718000, 96>>, <<721000, 97>>, <<722000, 98>>, <<723000, 99>>,
    <<725000, 100>>, <<727000, 101>>, <<730000, 102>>, <<732000, 103>>, <<735000, 104>>,
    <<740000, 105>>, <<741000, 106>>, <<742000, 107>>, <<743000, 108>>, <<745000, 109>>,
    <<747000, 110>>, <<748000, 111>>, <<750000, 112>>, <<752000, 113>>, <<754000, 114>>,
    <<757000, 115>>, <<758000, 116>>, <<760000, 117>>, <<763000, 118>>, <<764000, 119>>,
    <<766000, 120>>, <<767000, 121>>, <<768000, 122>>, <<773000, 123>>, <<774000, 124>>,
    <<776000, 125>>, <<777000, 126>>, <<778000, 127>>, <<779000, 128>>, <<781000, 129>>,
    <<783000, 130>>, <<784000, 131>>, <<785000, 132>>, <<786000, 133>>, <<793000, 134>>,
    <<794000, 135>>, <<795000, 136>>, <<797000, 137>>, <<799000, 138>>, <<801000, 139>>,
    <<802000, 140>>, <<803000, 141>>, <<804000, 142>>, <<810000, 144>>, <<811000, 145>>,
    <<812000, 146>>, <<814000, 147>>, <<816000, 148>>, <<817000, 150>>, <<818000, 151>>,
    <<820000, 152>>, <<821000, 153>>, <<822000, 154>>, <<828000, 155>>, <<829000, 157>>,
    <<830000, 159>>, <<831000, 160>>, <<833000, 161>>, <<835000, 162>>, <<836000, 163>>,
    <<837000, 164>>, <<838000, 166>>, <<840000, 168>>, <<842000, 169>>, <<845000, 170>>,
    <<846000, 171>>, <<847000, 173>>, <<848000, 174>>, <<852000, 175>>, <<853000, 176>>,
    <<858000, 177>>, <<860000, 178>>, <<861000, 179>>, <<862000, 180>>, <<863000, 182>>,
    <<864000, 184>>, <<865000, 185>> >>

tda18271_ir_measure == <<
    <<30000, 4>>, <<200000, 5>>, <<600000, 6>>, <<865000, 7>> >>

tda18271_rf_cal_dc_over_dt == <<
    <<47900, 0>>, <<55000, 0>>, <<61100, 10>>, <<64000, 10>>, <<82000, 20>>,
    <<84000, 25>>, <<119000, 28>>, <<124000, 32>>, <<129000, 42>>, <<134000, 50>>,
    <<139000, 57>>, <<144000, 62>>, <<149000, 63>>, <<152600, 64>>, <<154000, 64>>,
    <<164700, 65>>, <<203500, 50>>, <<353000, 25>>, <<356000, 26>>, <<359000, 27>>,
    <<363000, 28>>, <<366000, 29>>, <<369000, 30>>, <<373000, 31>>, <<376000, 32>>,
    <<379000, 33>>, <<383000, 34>>, <<386000, 35>>, <<389000, 36>>, <<393000, 37>>,
    <<396000, 38>>, <<399000, 39>>, <<402000, 40>>, <<404000, 41>>, <<407000, 42>>,
    <<409000, 43>>, <<412000, 44>>, <<414000, 45>>, <<417000, 46>>, <<419000, 47>>,
    <<422000, 48>>, <<424000, 49>>, <<427000, 50>>, <<429000, 51>>, <<432000, 52>>,
    <<434000, 53>>, <<437000, 54>>, <<439000, 55>>, <<442000, 56>>, <<444000, 57>>,
    <<447000, 58>>, <<449000, 59>>, <<457800, 60>>, <<465000, 15>>, <<477000, 18>>,
    <<483000, 20>>, <<502000, 25>>, <<508000, 27>>, <<519000, 28>>, <<522000, 29>>,
    <<524000, 30>>, <<534000, 31>>, <<549000, 32>>, <<554000, 34>>, <<584000, 36>>,
    <<589000, 38>>, <<658000, 39>>, <<664000, 44>>, <<669000, 45>>, <<699000, 46>>,
    <<704000, 48>>, <<709000, 49>>, <<714000, 50>>, <<724000, 51>>, <<729000, 54>>,
    <<739000, 56>>, <<744000, 57>>, <<749000, 59>>, <<754000, 60>>, <<759000, 61>>,
    <<764000, 62>>, <<769000, 63>>, <<774000, 64>>, <<779000, 65>>, <<784000, 67>>,
    <<789000, 70>>, <<794000, 72>>, <<799000, 75>>, <<804000, 79>>, <<809000, 84>>,
    <<814000, 89>>, <<819000, 93>>, <<824000, 97>>, <<829000, 104>>, <<834000, 110>>,
    <<839000, 117>>, <<844000, 126>>, <<849000, 130>>, <<854000, 132>>, <<859000, 143>>,
    <<865000, 154>> >>

tda18271_thermometer == <<
    <<0, 60, 92>>, <<1, 62, 94>>, <<2, 66, 98>>, <<3, 64, 96>>, <<4, 74, 106>>,
    <<5, 72, 104>>, <<6, 68, 100>>, <<7, 70, 102>>, <<8, 90, 122>>, <<9, 88, 120>>,
    <<10, 84, 116>>, <<11, 86, 118>>, <<12, 76, 108>>, <<13, 78, 110>>, <<14, 82, 114>>,
    <<15, 80, 112>> >>

tda18271_cid_target == <<
    <<46000, 4, 1800>>, <<52200, 10, 1500>>, <<70100, 1, 4000>>, <<136800, 24, 4000>>,
    <<156700, 24, 4000>>, <<186250, 10, 4000>>, <<230000, 10, 4000>>,
    <<345000, 24, 4000>>, <<426000, 14, 4000>>, <<489500, 30, 4000>>,
    <<697500, 50, 4000>>, <<842000, 58, 4000>> >>

tda18271_rf_band_template == <<
    <<47900, 0, 46000, 0, 0>>, <<61100, 1, 52200, 0, 0>>, <<152600, 2, 70100, 136800, 0>>,
    <<164700, 3, 156700, 0, 0>>, <<203500, 4, 186250, 0, 0>>,
    <<457800, 5, 230000, 345000, 426000>>, <<865000, 6, 489500, 697500, 842000>> >>

-----------------------------------------------------------------------------
\* The condition the loops end at.
Reaches(entry, freq) == entry[1] * 1000 >= freq

\* The index the loops stop at: an entry that reaches the frequency, or the last.
Found(map, freq) ==
    CHOOSE i \in 1..Len(map) :
        /\ Reaches(map[i], freq) \/ i = Len(map)
        /\ \A j \in 1..i - 1 : ~Reaches(map[j], freq)

\* FALSE: the function returns -ERANGE.
InRange(map, freq) == Reaches(map[Found(map, freq)], freq)

\* The entry, whose values are stored in any case.
Lookup(map, freq) == map[Found(map, freq)]

\* FALSE: tda18271_lookup_rf_band, which goes on to the terminating entry,
\* returns -EINVAL; else the index it returns.
HasBand(freq) == InRange(tda18271_rf_band_template, freq)
tda18271_lookup_rf_band(freq) == Found(tda18271_rf_band_template, freq)

\* The temperature; bits are the low ones of the register TM, fast its bit 0x20.
tda18271_lookup_thermometer(bits, fast) ==
    LET map == tda18271_thermometer
        found == CHOOSE i \in 1..Len(map) :
                     /\ map[i][1] >= bits \/ i = Len(map)
                     /\ \A j \in 1..i - 1 : map[j][1] < bits
    IN  map[found][IF fast THEN 3 ELSE 2]

\* The layout of each revision of the chip; C1 has no rf_cal_dc_over_dt.
tda18271_map_layout ==
    [C1 |-> [bp_filter |-> tda18271_bp_filter, rf_band |-> tda18271_rf_band,
             gain_taper |-> tda18271_gain_taper, ir_measure |-> tda18271_ir_measure,
             main_pll |-> tda18271c1_main_pll, cal_pll |-> tda18271c1_cal_pll,
             rf_cal |-> tda18271c1_rf_cal, rf_cal_kmco |-> tda18271c1_km],
     C2 |-> [bp_filter |-> tda18271_bp_filter, rf_band |-> tda18271_rf_band,
             gain_taper |-> tda18271_gain_taper, ir_measure |-> tda18271_ir_measure,
             main_pll |-> tda18271c2_main_pll, cal_pll |-> tda18271c2_cal_pll,
             rf_cal |-> tda18271c2_rf_cal, rf_cal_kmco |-> tda18271c2_km,
             rf_cal_dc_over_dt |-> tda18271_rf_cal_dc_over_dt]]

=============================================================================
