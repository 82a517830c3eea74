----------------------------- MODULE SensorPrograms -----------------------------
(***************************************************************************)
(* The setters the programs of the repository call, and in which order:    *)
(* the ADIRU on a socket (src/main/adiru-nosocket.cpp), the one on MQTT    *)
(* (src/main/adiru.cpp), the pressure test (src/tests/pressure.cpp) and    *)
(* the magnetometer test (src/main/mag_test.cpp).                          *)
(***************************************************************************)
EXTENDS SensorSetup

(* Registers *)

REG_CFG == <<"mpu6050", 26>>
REG_GYRO_CFG == <<"mpu6050", 27>>
REG_ACCL_CFG == <<"mpu6050", 28>>
REG_PWR_MNG_1 == <<"mpu6050", 107>>

BMP390_FIFO_CONFIG_1 == <<"bmp390", 23>>
BMP390_REG_PWR_CTRL == <<"bmp390", 27>>
BMP390_REG_OSR == <<"bmp390", 28>>
BMP390_REG_ODR == <<"bmp390", 29>>
BMP390_REG_CONFIG == <<"bmp390", 31>>

CONTROL_REGISTER_1 == <<"qmc5883", 9>>

AllRegisters == {REG_CFG, REG_GYRO_CFG, REG_ACCL_CFG, REG_PWR_MNG_1,
                 BMP390_FIFO_CONFIG_1, BMP390_REG_PWR_CTRL, BMP390_REG_OSR,
                 BMP390_REG_ODR, BMP390_REG_CONFIG, CONTROL_REGISTER_1}

\* The chips after power-up: the MPU6050 sleeps, the BMP390's FIFO stops when
\* it is full and its pressure is oversampled.
PowerUp == [r \in AllRegisters |->
              CASE r = REG_PWR_MNG_1 -> {6}
                [] r = BMP390_FIFO_CONFIG_1 -> {1}
                [] r = BMP390_REG_OSR -> {1}
                [] OTHER -> {}]

\* The drivers' static scales: 2 g, 2000 degrees a second, and one that is
\* of none of the QMC5883's ranges.
AllRanged == {REG_ACCL_CFG, REG_GYRO_CFG, CONTROL_REGISTER_1}
Scales == [r \in AllRanged |-> CASE r = REG_ACCL_CFG -> {}
                                 [] r = REG_GYRO_CFG -> {3, 4}
                                 [] r = CONTROL_REGISTER_1 -> {4, 5}]

(* The bits of a field that starts at bit low and holds n. *)
Field(n, low) == {b + low : b \in BitsOf(n)}
Flag(enable, bit) == IF enable THEN {bit} ELSE {}

-----------------------------------------------------------------------------
(* mpu6050.cpp *)

set_accl_set(range) == Modify(REG_ACCL_CFG, {3, 4}, Field(range, 3))
set_gyro_set(range) == Modify(REG_GYRO_CFG, {3, 4}, Field(range, 3))
set_clk(clk) == Modify(REG_PWR_MNG_1, {0, 1, 2}, Field(clk, 0))
set_fsync(fsync) == Modify(REG_CFG, {3, 4, 5}, Field(fsync, 3))
set_dlpf_bandwidth(dlpf) == Modify(REG_CFG, {0, 1, 2}, Field(dlpf, 0))
wake_up == Modify(REG_PWR_MNG_1, {6}, {})

(* bmp390.cpp *)

soft_reset == Reset(BMP390_REG_PWR_CTRL)
set_oversample(pressure, temperature) ==
  Assign(BMP390_REG_OSR, Field(pressure, 0) \cup Field(temperature, 3))
set_iir_filter(filter) == Assign(BMP390_REG_CONFIG, Field(filter, 1))
set_output_data_rate(rate) == Assign(BMP390_REG_ODR, Field(rate, 0))
set_enable(pressure, temperature) ==
  Modify(BMP390_REG_PWR_CTRL, {0, 1}, Flag(pressure, 0) \cup Flag(temperature, 1))
set_enable_fifo(pressure, temperature) ==
  Modify(BMP390_FIFO_CONFIG_1, {0, 3, 4},
         Flag(pressure \/ temperature, 0) \cup Flag(pressure, 3) \cup Flag(temperature, 4))
set_fifo_stop_on_full(stop_on_full) == Modify(BMP390_FIFO_CONFIG_1, {1}, Flag(stop_on_full, 1))
set_pwr_mode(mode) == Modify(BMP390_REG_PWR_CTRL, {4, 5}, Field(mode, 4))

(* qmc5883.cpp *)

set_control_register(mode, odr, range, osr) ==
  Assign(CONTROL_REGISTER_1, Field(mode, 0) \cup Field(odr, 2) \cup Field(range, 4) \cup Field(osr, 6))

-----------------------------------------------------------------------------
(* The programs *)

mpu6050 == <<set_accl_set(0), set_gyro_set(0), set_clk(2), set_fsync(0),
             set_dlpf_bandwidth(6), wake_up>>

bmp390 == <<soft_reset, set_oversample(2, 0), set_iir_filter(2), set_output_data_rate(2),
            set_enable(TRUE, TRUE), set_enable_fifo(TRUE, TRUE),
            set_fifo_stop_on_full(FALSE), set_pwr_mode(3)>>

qmc5883 == <<set_control_register(1, 3, 0, 0)>>

adiru_nosocket == mpu6050 \o bmp390 \o qmc5883

adiru == mpu6050

pressure == <<soft_reset, set_oversample(3, 0), set_iir_filter(4), set_output_data_rate(2),
              set_enable(TRUE, TRUE), set_fifo_stop_on_full(FALSE), set_pwr_mode(3)>>

mag_test == <<set_control_register(1, 3, 0, 3)>>

AllPrograms == {adiru_nosocket, adiru, pressure, mag_test}
=============================================================================
